---------------------------- MODULE Spec2Model ----------------------------
(***************************************************************************)
(* The outbound API request layer of the IcePanel MCP server               *)
(* (src/src/tools/utils.ts, the "IcePanel API client" part): module-level  *)
(* configuration read from process.env, and apiRequest with its per-attempt*)
(* timeout, external cancellation, and capped exponential backoff.         *)
(*                                                                         *)
(* One step of the model is one run of JavaScript between two awaits: the  *)
(* event loop runs a continuation to its next await without interleaving.  *)
(***************************************************************************)
EXTENDS Integers, Sequences, FiniteSets, TLC

(***************************************************************************)
(* Program constants (utils.ts 204-209, 273-279).                          *)
(***************************************************************************)
DEFAULT_API_BASE_URL == "https://api.icepanel.io/v1"
DEFAULT_API_TIMEOUT_MS == 30000
DEFAULT_API_MAX_RETRIES == 2
DEFAULT_API_RETRY_BASE_DELAY_MS == 300
MAX_API_RETRIES == 5
MAX_API_RETRY_BASE_DELAY_MS == 5000
MIN_API_TIMEOUT_MS == 1000
MAX_API_TIMEOUT_MS == 120000
MIN_API_RETRIES == 0
MIN_API_RETRY_BASE_DELAY_MS == 50

(***************************************************************************)
(* Small arithmetic helpers (Math.min, Math.max, Math.pow(2, n)).          *)
(***************************************************************************)
Min(a, b) == IF a <= b THEN a ELSE b
Max(a, b) == IF a >= b THEN a ELSE b

RECURSIVE Pow2(_)
Pow2(n) == IF n = 0 THEN 1 ELSE 2 * Pow2(n - 1)

(***************************************************************************)
(* process.env values.  A variable is either unset (undefined) or a        *)
(* string; numeric variables are kept as sequences of one-character        *)
(* strings so that Number.parseInt can be computed on them.                *)
(***************************************************************************)
Unset == [set |-> FALSE, chars |-> <<>>]
Str(cs) == [set |-> TRUE, chars |-> cs]

UnsetS == [set |-> FALSE, str |-> ""]
S(s) == [set |-> TRUE, str |-> s]

Digits == {"0", "1", "2", "3", "4", "5", "6", "7", "8", "9"}
WhiteSpace == {" ", "\t", "\n"}

DigitVal(ch) ==
    CASE ch = "0" -> 0 [] ch = "1" -> 1 [] ch = "2" -> 2 [] ch = "3" -> 3
      [] ch = "4" -> 4 [] ch = "5" -> 5 [] ch = "6" -> 6 [] ch = "7" -> 7
      [] ch = "8" -> 8 [] ch = "9" -> 9

\* The longest prefix of cs made of decimal digits.
DigitRun(cs) ==
    LET stops == {i \in 1..Len(cs) : cs[i] \notin Digits}
        end == IF stops = {} THEN Len(cs)
               ELSE (CHOOSE i \in stops : \A j \in stops : i <= j) - 1
    IN  SubSeq(cs, 1, end)

\* A run of digits without its leading zeros: its significant digits.
StripZeros(ds) ==
    LET nonzero == {i \in 1..Len(ds) : ds[i] # "0"}
    IN  IF nonzero = {} THEN <<>>
        ELSE SubSeq(ds, CHOOSE i \in nonzero : \A j \in nonzero : i <= j, Len(ds))

\* The value of a run of significant digits, folded left to right.  A value
\* of more than nine digits is held as 10^9: it is finite and above every
\* maximum the program clamps to, and that is all the program does with a
\* Number of this size.
RECURSIVE DigitsFold(_, _)
DigitsFold(ds, acc) ==
    IF ds = <<>> THEN acc
    ELSE DigitsFold(Tail(ds), 10 * acc + DigitVal(Head(ds)))

DigitsValue(sig) == IF Len(sig) > 9 THEN 1000000000 ELSE DigitsFold(sig, 0)

RECURSIVE TrimStart(_)
TrimStart(cs) ==
    IF cs # <<>> /\ Head(cs) \in WhiteSpace THEN TrimStart(Tail(cs)) ELSE cs

\* The first 20 digits of the largest integers that still round to a finite
\* double (2^1024 - 2^970 = 1.79769313486231580793...e308, 309 digits).
DOUBLE_LIMIT_DIGITS ==
    <<"1", "7", "9", "7", "6", "9", "3", "1", "3", "4",
      "8", "6", "2", "3", "1", "5", "8", "0", "7", "9">>

\* a > b, digit by digit over the length of b (a is at least as long).
RECURSIVE DigitsGreater(_, _)
DigitsGreater(a, b) ==
    IF b = <<>> THEN FALSE
    ELSE IF Head(a) # Head(b) THEN DigitVal(Head(a)) > DigitVal(Head(b))
    ELSE DigitsGreater(Tail(a), Tail(b))

\* The integer with these significant digits is beyond the range of a
\* double: the Number it converts to is Infinity.
BeyondDouble(sig) ==
    \/ Len(sig) > 309
    \/ Len(sig) = 309 /\ DigitsGreater(sig, DOUBLE_LIMIT_DIGITS)

\* Number.parseInt(raw, 10): leading white space is skipped, one sign is
\* accepted, then the longest run of decimal digits is read; no digit at
\* all gives NaN, an integer beyond the doubles gives +-Infinity.
NaN == [nan |-> TRUE, inf |-> FALSE, value |-> 0]
Num(v) == [nan |-> FALSE, inf |-> FALSE, value |-> v]
Infinity(neg) == [nan |-> FALSE, inf |-> TRUE, value |-> IF neg THEN 0 - 1 ELSE 1]

parseInt10(cs) ==
    LET t == TrimStart(cs)
        neg == t # <<>> /\ Head(t) = "-"
        signed == t # <<>> /\ Head(t) \in {"-", "+"}
        body == IF signed THEN Tail(t) ELSE t
        run == DigitRun(body)
        sig == StripZeros(run)
        magnitude == DigitsValue(sig)
    IN  IF run = <<>> THEN NaN
        ELSE IF BeyondDouble(sig) THEN Infinity(neg)
        ELSE Num(IF neg THEN 0 - magnitude ELSE magnitude)

\* Number.isFinite
NumberIsFinite(value) == ~value.nan /\ ~value.inf

\* Mutant of parseEnvInt: `Number.parseInt(raw, 10) || fallback`, which takes
\* a configured 0 for a missing value.
parseEnvInt_ZeroIsFalsy(raw, fallback, min, max) ==
    IF ~raw.set \/ raw.chars = <<>> THEN fallback
    ELSE LET value == parseInt10(raw.chars)
         IN  IF ~NumberIsFinite(value) \/ value.value = 0 THEN fallback
             ELSE Min(Max(value.value, min), max)

\* Mutant of parseEnvInt: a value outside min..max is replaced by the
\* fallback instead of being clamped.
parseEnvInt_OutOfRangeFallsBack(raw, fallback, min, max) ==
    IF ~raw.set \/ raw.chars = <<>> THEN fallback
    ELSE LET value == parseInt10(raw.chars)
         IN  IF ~NumberIsFinite(value) THEN fallback
             ELSE IF value.value < min \/ value.value > max THEN fallback
             ELSE value.value

\* Mutant of parseEnvInt: the value is not clamped to min..max.
parseEnvInt_NoClamp(raw, fallback, min, max) ==
    IF ~raw.set \/ raw.chars = <<>> THEN fallback
    ELSE LET value == parseInt10(raw.chars)
         IN  IF ~NumberIsFinite(value) THEN fallback
             ELSE value.value

\* utils.ts parseEnvInt: `raw` is process.env[name].
parseEnvInt(raw, fallback, min, max) ==
    IF ~raw.set \/ raw.chars = <<>> THEN fallback
    ELSE LET value == parseInt10(raw.chars)
         IN  IF ~NumberIsFinite(value) THEN fallback
             ELSE Min(Max(value.value, min), max)

isTruthyEnv(value) ==
    value.set /\ value.str \in {"1", "true", "TRUE", "yes", "YES"}


(***************************************************************************)
(* new URL(raw) on the sample base URLs: whether the string parses, the    *)
(* parsed protocol (lower-cased by the URL parser) and the serialised      *)
(* href (a bare origin gets the path "/").                                 *)
(***************************************************************************)
URL_STAGING == "https://staging.example.com/"
URL_HTTP == "http://localhost:8080"
URL_HTTP_UPPER == "HTTP://Example.com/api/"
URL_FTP == "ftp://example.com"
URL_NO_SCHEME == "api.icepanel.io/v1"

ParseURL(raw) ==
    CASE raw = DEFAULT_API_BASE_URL ->
           [valid |-> TRUE, protocol |-> "https:", href |-> "https://api.icepanel.io/v1"]
      [] raw = URL_STAGING ->
           [valid |-> TRUE, protocol |-> "https:", href |-> "https://staging.example.com/"]
      [] raw = URL_HTTP ->
           [valid |-> TRUE, protocol |-> "http:", href |-> "http://localhost:8080/"]
      [] raw = URL_HTTP_UPPER ->
           [valid |-> TRUE, protocol |-> "http:", href |-> "http://example.com/api/"]
      [] raw = URL_FTP ->
           [valid |-> TRUE, protocol |-> "ftp:", href |-> "ftp://example.com/"]
      [] OTHER ->
           [valid |-> FALSE, protocol |-> "", href |-> ""]

\* href.replace(/\/$/, ""): one trailing slash is dropped.
StripTrailingSlash(href) ==
    CASE href = "https://staging.example.com/" -> "https://staging.example.com"
      [] href = "http://localhost:8080/" -> "http://localhost:8080"
      [] href = "http://example.com/api/" -> "http://example.com/api"
      [] href = "ftp://example.com/" -> "ftp://example.com"
      [] OTHER -> href

ERR_INVALID_URL == "ICEPANEL_API_BASE_URL must be a valid URL"
ERR_INSECURE_URL ==
    "ICEPANEL_API_BASE_URL must use https unless ICEPANEL_API_ALLOW_INSECURE is true"
ERR_SCHEME_URL == "ICEPANEL_API_BASE_URL must use http or https"
ERR_NO_API_KEY == "API_KEY environment variable is not set"
ERR_UNEXPECTED == "Unexpected error in apiRequest"

\* Mutant of getValidatedApiBaseUrl: the check for plain http is missing.
getValidatedApiBaseUrl_NoInsecureCheck(e) ==
    LET given == e.ICEPANEL_API_BASE_URL
        raw == IF given.set /\ given.str # "" THEN given.str ELSE DEFAULT_API_BASE_URL
        parsed == ParseURL(raw)
    IN  IF ~parsed.valid
        THEN [threw |-> TRUE, message |-> ERR_INVALID_URL, url |-> ""]
        ELSE IF parsed.protocol # "https:" /\ parsed.protocol # "http:"
        THEN [threw |-> TRUE, message |-> ERR_SCHEME_URL, url |-> ""]
        ELSE [threw |-> FALSE, message |-> "", url |-> StripTrailingSlash(parsed.href)]

\* utils.ts getValidatedApiBaseUrl: the value returned, or the message of
\* the Error thrown.
getValidatedApiBaseUrl(e) ==
    LET given == e.ICEPANEL_API_BASE_URL
        raw == IF given.set /\ given.str # "" THEN given.str ELSE DEFAULT_API_BASE_URL
        parsed == ParseURL(raw)
        isInsecureAllowed == isTruthyEnv(e.ICEPANEL_API_ALLOW_INSECURE)
    IN  IF ~parsed.valid
        THEN [threw |-> TRUE, message |-> ERR_INVALID_URL, url |-> ""]
        ELSE IF parsed.protocol = "http:" /\ ~isInsecureAllowed
        THEN [threw |-> TRUE, message |-> ERR_INSECURE_URL, url |-> ""]
        ELSE IF parsed.protocol # "https:" /\ parsed.protocol # "http:"
        THEN [threw |-> TRUE, message |-> ERR_SCHEME_URL, url |-> ""]
        ELSE [threw |-> FALSE, message |-> "", url |-> StripTrailingSlash(parsed.href)]

\* Mutant of getApiKey: the check is missing, a missing key is sent as "".
getApiKey_NoCheck(e) ==
    [threw |-> FALSE, message |-> "",
     key |-> IF e.API_KEY.set THEN e.API_KEY.str ELSE ""]

\* utils.ts getApiKey: the key, or the message of the Error thrown.
getApiKey(e) ==
    IF ~e.API_KEY.set \/ e.API_KEY.str = ""
    THEN [threw |-> TRUE, message |-> ERR_NO_API_KEY, key |-> ""]
    ELSE [threw |-> FALSE, message |-> "", key |-> e.API_KEY.str]

(***************************************************************************)
(* JavaScript values carried by results and error bodies.                  *)
(***************************************************************************)
Undefined == [type |-> "undefined", str |-> "", message |-> "", holds |-> ""]
StringValue(s) == [type |-> "string", str |-> s, message |-> "", holds |-> ""]
ObjectValue(msg) == [type |-> "object", str |-> "", message |-> msg, holds |-> ""]

\* An object whose property `key` is an entity with a name, as the API
\* returns for a model object ({ modelObject }) or a connection
\* ({ modelConnection }).
EntityValue(key) == [type |-> "object", str |-> "", message |-> "", holds |-> key]
EmptyObject == ObjectValue("")

(***************************************************************************)
(* What the remote API may answer: a status and a body text.               *)
(***************************************************************************)
Statuses == {200, 204, 302, 404, 429, 500, 503}

TEXT_EMPTY == ""
TEXT_JSON == "{\"message\":\"Landscape not found\"}"
TEXT_HTML == "<html>Bad Gateway</html>"
Texts == {TEXT_EMPTY, TEXT_JSON, TEXT_HTML}

\* The bodies of a model object and of a connection.
TEXT_MODEL_OBJECT == "{\"modelObject\":{\"name\":\"Gateway\"}}"
TEXT_CONNECTION == "{\"modelConnection\":{\"name\":\"calls\"}}"

ReasonPhrase(status) ==
    CASE status = 200 -> "OK"
      [] status = 204 -> "No Content"
      [] status = 302 -> "Found"
      [] status = 404 -> "Not Found"
      [] status = 429 -> "Too Many Requests"
      [] status = 500 -> "Internal Server Error"
      [] status = 503 -> "Service Unavailable"
      [] OTHER -> ""

NoResponse == [status |-> 0, statusText |-> "", text |-> ""]
Response(status, text) ==
    [status |-> status, statusText |-> ReasonPhrase(status), text |-> text]

\* Response.ok
ResponseOk(response) == response.status >= 200 /\ response.status <= 299

\* JSON.parse on the sample texts: the parsed value, or a SyntaxError.
JSONParse(text) ==
    CASE text = TEXT_JSON ->
           [ok |-> TRUE, value |-> ObjectValue("Landscape not found")]
      [] text = TEXT_MODEL_OBJECT ->
           [ok |-> TRUE, value |-> EntityValue("modelObject")]
      [] text = TEXT_CONNECTION ->
           [ok |-> TRUE, value |-> EntityValue("modelConnection")]
      [] OTHER -> [ok |-> FALSE, value |-> Undefined]

\* Mutant of ErrorBody: a body that is not JSON is dropped.
ErrorBody_NoRawText(rawText) ==
    LET parsed == JSONParse(rawText)
    IN  IF parsed.ok THEN parsed.value ELSE Undefined

\* The body of the IcePanelApiError built from the text of a non-2xx
\* response: `try { body = JSON.parse(rawText) } catch { body = rawText ||
\* undefined }`.
ErrorBody(rawText) ==
    LET parsed == JSONParse(rawText)
    IN  IF parsed.ok THEN parsed.value
        ELSE IF rawText # "" THEN StringValue(rawText) ELSE Undefined

\* Mutant of IsNoContent: the 204 case is missing.
IsNoContent_Never(response) == FALSE

\* `response.status === 204`
IsNoContent(response) == response.status = 204

(***************************************************************************)
(* Errors.  `class` is what instanceof tests, `name` is error.name.        *)
(* `attempt` and `cause` are history the JavaScript object does not carry: *)
(* the loop iteration in which the error was created, and which abort()    *)
(* call made the fetch reject.                                             *)
(***************************************************************************)
NoError ==
    [class |-> "", name |-> "", message |-> "", status |-> 0, statusText |-> "",
     body |-> Undefined, attempt |-> 0, cause |-> ""]

\* utils.ts class IcePanelApiError (the message also holds status and
\* statusText, which the fields already carry).
IcePanelApiError(status, statusText, body, attempt) ==
    [class |-> "IcePanelApiError", name |-> "IcePanelApiError",
     message |-> "IcePanel API error", status |-> status, statusText |-> statusText,
     body |-> body, attempt |-> attempt, cause |-> ""]

\* What fetch, response.text() and response.json() reject with when the
\* controller's signal is aborted.
AbortError(attempt, cause) ==
    [NoError EXCEPT !.class = "DOMException", !.name = "AbortError",
                    !.message = "This operation was aborted",
                    !.attempt = attempt, !.cause = cause]

\* What fetch rejects with on a network failure.
NetworkTypeError(attempt) ==
    [NoError EXCEPT !.class = "TypeError", !.name = "TypeError",
                    !.message = "fetch failed", !.attempt = attempt]

\* What response.json() rejects with on a body that is not JSON.
JsonSyntaxError(attempt) ==
    [NoError EXCEPT !.class = "SyntaxError", !.name = "SyntaxError",
                    !.message = "Unexpected token", !.attempt = attempt]

PlainError(message, attempt) ==
    [NoError EXCEPT !.class = "Error", !.name = "Error",
                    !.message = message, !.attempt = attempt]

\* Mutant of isRetryableStatus: every 4xx is retried too.
isRetryableStatus_Any4xx(status) == status >= 400

isRetryableStatus(status) == status = 429 \/ status >= 500

\* Mutant of isRetryableError: the external abort is not looked at.
isRetryableError_IgnoresExternalAbort(error, externalAbort) ==
    IF error.class = "IcePanelApiError" THEN isRetryableStatus(error.status)
    ELSE error.name = "AbortError" \/ error.class = "TypeError"

\* Mutant of isRetryableError: network failures (TypeError) are not retried.
isRetryableError_NoTypeError(error, externalAbort) ==
    IF externalAbort THEN FALSE
    ELSE IF error.class = "IcePanelApiError" THEN isRetryableStatus(error.status)
    ELSE error.name = "AbortError"

\* Mutant of isRetryableError: aborts are not retried.
isRetryableError_NoAbortError(error, externalAbort) ==
    IF externalAbort THEN FALSE
    ELSE IF error.class = "IcePanelApiError" THEN isRetryableStatus(error.status)
    ELSE error.class = "TypeError"

isRetryableError(error, externalAbort) ==
    IF externalAbort THEN FALSE
    ELSE IF error.class = "IcePanelApiError" THEN isRetryableStatus(error.status)
    ELSE IF error.class \in {"Error", "TypeError", "SyntaxError", "DOMException"}
    THEN error.name = "AbortError" \/ error.class = "TypeError"
    ELSE FALSE

\* (options.method || "GET").toUpperCase() on the sample methods.
ToUpperCase(s) ==
    CASE s = "get" -> "GET"
      [] s = "head" -> "HEAD"
      [] s = "delete" -> "DELETE"
      [] OTHER -> s

MethodOf(options) ==
    ToUpperCase(IF options.method.set /\ options.method.str # ""
                THEN options.method.str ELSE "GET")

(***************************************************************************)
(* Request headers.  A JavaScript object is a function from its own        *)
(* enumerable property names to their values; header values are kept as    *)
(* tuples of string pieces (a template literal is the tuple of its parts). *)
(* options.headers is undefined ("none"), a plain object ("object") or a   *)
(* Headers instance ("Headers"), which has no own enumerable properties.   *)
(***************************************************************************)
NoProperties == [n \in {} |-> <<>>]

NoHeaders == [kind |-> "none", entries |-> NoProperties]
HeadersObject(entries) == [kind |-> "object", entries |-> entries]
HeadersInstance(entries) == [kind |-> "Headers", entries |-> entries]

\* `...options.headers`: the own enumerable properties the spread copies.
Spread(h) == IF h.kind = "object" THEN h.entries ELSE NoProperties

\* The three properties the object literal starts with.
DefaultHeaders(key) ==
    [n \in {"Accept", "Content-Type", "Authorization"} |->
       CASE n = "Accept" -> <<"application/json">>
         [] n = "Content-Type" -> <<"application/json">>
         [] n = "Authorization" -> <<"ApiKey ", key>>]

\* Mutant of MergeHeaders: `options.headers || {...}`, the caller's headers
\* take the place of the three.
MergeHeaders_CallerReplaces(key, optionsHeaders) ==
    IF optionsHeaders.kind = "none" THEN DefaultHeaders(key)
    ELSE Spread(optionsHeaders)

\* The `headers` object literal of apiRequest: a later property of the same
\* name replaces the value of an earlier one.
MergeHeaders(key, optionsHeaders) ==
    LET defaults == DefaultHeaders(key)
        given == Spread(optionsHeaders)
    IN  [n \in DOMAIN defaults \cup DOMAIN given |->
           IF n \in DOMAIN given THEN given[n] ELSE defaults[n]]

\* Mutant of CanRetry: every method is retried.
CanRetry_AnyMethod(method) == TRUE

CanRetry(method) == method = "GET" \/ method = "HEAD"

(***************************************************************************)
(* The tool layer's values.  A JavaScript value is a record of one shape;  *)
(* an object is the sequence of its own enumerable properties in insertion *)
(* order (no key of the filters is an integer index).                      *)
(***************************************************************************)
JsValue(type) ==
    [type |-> type, str |-> "", bool |-> FALSE, num |-> 0, items |-> <<>>,
     entries |-> <<>>]

JsUndefined == JsValue("undefined")
JsNull == JsValue("null")
JsString(s) == [JsValue("string") EXCEPT !.str = s]
JsBoolean(b) == [JsValue("boolean") EXCEPT !.bool = b]
JsNumber(n) == [JsValue("number") EXCEPT !.num = n]
JsArray(items) == [JsValue("array") EXCEPT !.items = items]
JsObject(entries) == [JsValue("object") EXCEPT !.entries = entries]

Property(key, value) == [key |-> key, value |-> value]

\* `key in object` and object[key]
HasKey(entries, key) == \E i \in 1..Len(entries) : entries[i].key = key
Get(entries, key) ==
    IF HasKey(entries, key)
    THEN entries[CHOOSE i \in 1..Len(entries) : entries[i].key = key].value
    ELSE JsUndefined

\* String(value), for the values a filter holds (strings, booleans, null).
String(value) ==
    CASE value.type = "string" -> value.str
      [] value.type = "boolean" -> IF value.bool THEN "true" ELSE "false"
      [] value.type = "null" -> "null"
      [] value.type = "undefined" -> "undefined"

\* The names of the query parameters: `filter[${key}]`, `filter[${key}][]`
\* and `filter[labels][${labelKey}]`.
ParamName(key) == [key |-> key, kind |-> "value", sub |-> ""]
ArrayParamName(key) == [key |-> key, kind |-> "array", sub |-> ""]
LabelParamName(labelKey) == [key |-> "labels", kind |-> "label", sub |-> labelKey]

Param(name, value) == [name |-> name, value |-> value]

\* The index keys of an array, as Object.entries names them.
IndexKey(i) == CASE i = 1 -> "0" [] i = 2 -> "1" [] i = 3 -> "2"

\* Object.entries(value) for an object or an array.
ObjectEntries(value) ==
    IF value.type = "array"
    THEN [i \in 1..Len(value.items) |-> Property(IndexKey(i), value.items[i])]
    ELSE value.entries

\* Mutant of EntryParams: a null value is skipped like an undefined one.
EntryParams_NullOmitted(key, value) ==
    IF value.type \in {"undefined", "null"} THEN <<>>
    ELSE IF key = "labels" /\ value.type \in {"object", "array"}
    THEN LET labels == ObjectEntries(value)
         IN  IF Len(labels) = 0 THEN <<>>
             ELSE [i \in 1..Len(labels) |->
                     Param(LabelParamName(labels[i].key), String(labels[i].value))]
    ELSE IF value.type = "array"
    THEN IF Len(value.items) = 0 THEN <<>>
         ELSE [i \in 1..Len(value.items) |->
                 Param(ArrayParamName(key), String(value.items[i]))]
    ELSE <<Param(ParamName(key), String(value))>>

\* The callback buildFilterParams runs on each [key, value] of the filter:
\* the parameters it appends.
EntryParams(key, value) ==
    IF value.type = "undefined" THEN <<>>
    ELSE IF key = "labels" /\ value.type \in {"object", "array"}
    THEN LET labels == ObjectEntries(value)
         IN  IF Len(labels) = 0 THEN <<>>
             ELSE [i \in 1..Len(labels) |->
                     Param(LabelParamName(labels[i].key), String(labels[i].value))]
    ELSE IF value.type = "array"
    THEN IF Len(value.items) = 0 THEN <<>>
         ELSE [i \in 1..Len(value.items) |->
                 Param(ArrayParamName(key), String(value.items[i]))]
    ELSE IF value.type = "null"
    THEN <<Param(ParamName(key), "null")>>
    ELSE <<Param(ParamName(key), String(value))>>

\* utils.ts buildFilterParams: the parameters in the order they are appended.
RECURSIVE buildFilterParams(_)
buildFilterParams(filter) ==
    IF filter = <<>> THEN <<>>
    ELSE EntryParams(Head(filter).key, Head(filter).value)
           \o buildFilterParams(Tail(filter))

(***************************************************************************)
(* ListModelObjectsSchema (model-objects.ts): the keys of the strict       *)
(* object schema in the order of its shape, each with the default it       *)
(* declares (undefined when it declares none).                             *)
(***************************************************************************)
ListModelObjectsShape ==
    <<Property("landscapeId", JsUndefined),
      Property("domainId", JsUndefined),
      Property("external", JsBoolean(FALSE)),
      Property("name", JsUndefined),
      Property("parentId", JsUndefined),
      Property("status", JsUndefined),
      Property("type", JsUndefined),
      Property("technologyId", JsUndefined),
      Property("search", JsUndefined),
      Property("limit", JsNumber(50)),
      Property("offset", JsNumber(0)),
      Property("response_format", JsString("markdown"))>>

\* The value zod gives one key of the shape: the input's value, or the
\* default when the input has none.
ParsedValue(input, field) ==
    IF Get(input, field.key).type # "undefined" THEN Get(input, field.key)
    ELSE field.value

\* ListModelObjectsSchema.parse(input): a key that is not in the shape, or
\* a missing landscapeId, is a ZodError; the parsed object has the keys of
\* the shape, in its order, whose value is not undefined.
ListModelObjectsSchema(input) ==
    LET shape == ListModelObjectsShape
        known == {shape[i].key : i \in 1..Len(shape)}
        valid == /\ \A i \in 1..Len(input) : input[i].key \in known
                 /\ Get(input, "landscapeId").type = "string"
        all == [i \in 1..Len(shape) |->
                  Property(shape[i].key, ParsedValue(input, shape[i]))]
    IN  [ok |-> valid,
         value |-> IF valid THEN SelectSeq(all, LAMBDA e : e.value.type # "undefined")
                   ELSE <<>>]

\* `{ landscapeId, search, limit, offset, response_format, ...filters }`
RestFilters(parsed) ==
    SelectSeq(parsed, LAMBDA e : e.key \notin {"landscapeId", "search", "limit",
                                               "offset", "response_format"})

LANDSCAPE_ID == "abcdefghijklmnopqrst"

\* `/landscapes/${landscapeId}/versions/${versionId}/model/objects`
ModelObjectsPath(landscapeId, versionId) ==
    IF landscapeId = LANDSCAPE_ID /\ versionId = "latest"
    THEN "/landscapes/abcdefghijklmnopqrst/versions/latest/model/objects"
    ELSE "/landscapes/?/versions/?/model/objects"

(***************************************************************************)
(* One call of the icepanel_list_model_objects tool, or of getModelObjects *)
(* by other code.                                                          *)
(*   pc      "idle", "parsed" (the input passed the schema), "invalid"     *)
(*           (it did not), "called" (getModelObjects has been called)      *)
(*   input   the arguments of the tool call                                *)
(*   parsed  what ListModelObjectsSchema.parse returned                    *)
(*   filter  the filter getModelObjects was called with                    *)
(*   params  the URLSearchParams built from it                             *)
(***************************************************************************)
IdleTool ==
    [pc |-> "idle", input |-> <<>>, parsed |-> <<>>, filter |-> <<>>, params |-> <<>>]

(***************************************************************************)
(* The command line (src/cli/config.ts).  An argument, a key and a value   *)
(* are strings, written as sequences of characters so that the regular     *)
(* expressions of the code can be applied to them; the environment is a    *)
(* function from the names that are set to their values.                   *)
(***************************************************************************)
FLAG_TRANSPORT == <<"-", "-", "t", "r", "a", "n", "s", "p", "o", "r", "t">>

FLAG_PORT == <<"-", "-", "p", "o", "r", "t">>

MCP_TRANSPORT == <<"M", "C", "P", "_", "T", "R", "A", "N", "S", "P", "O", "R", "T">>

MCP_PORT == <<"M", "C", "P", "_", "P", "O", "R", "T">>

STDIO == <<"s", "t", "d", "i", "o">>

HTTP == <<"h", "t", "t", "p">>

SSE == <<"s", "s", "e">>

DEFAULT_PORT == <<"3", "0", "0", "0">>

\* The characters `.` does not match in a regular expression.
LineTerminators == {"\n", "\r"}

Quotes == {"\"", "'"}

NoEnv == [k \in {} |-> <<>>]

NoMatch == [matched |-> FALSE, key |-> <<>>, value |-> <<>>]

\* arg.match(/^([^=]+)=(.*)$/): a non-empty key without "=", the first "=",
\* and the rest of the argument, which must hold no line terminator.
MatchKeyValue(arg) ==
    LET eqs == {i \in 1..Len(arg) : arg[i] = "="}
    IN  IF eqs = {}
        THEN NoMatch
        ELSE LET first == CHOOSE i \in eqs : \A j \in eqs : i <= j
                 value == SubSeq(arg, first + 1, Len(arg))
             IN  IF first = 1 \/ \E i \in 1..Len(value) : value[i] \in LineTerminators
                 THEN NoMatch
                 ELSE [matched |-> TRUE, key |-> SubSeq(arg, 1, first - 1),
                       value |-> value]

\* value.replace(/^["'](.*)["']$/, "$1")
stripOuterQuotes(value) ==
    IF /\ Len(value) >= 2
       /\ value[1] \in Quotes
       /\ value[Len(value)] \in Quotes
       /\ \A i \in 2..(Len(value) - 1) : value[i] \notin LineTerminators
    THEN SubSeq(value, 2, Len(value) - 1)
    ELSE value

SetEnv_KeepsExisting(e, key, value) ==
    IF key \in DOMAIN e THEN e
    ELSE [k \in DOMAIN e \cup {key} |-> IF k = key THEN value ELSE e[k]]

\* updatedEnv[key] = value
SetEnv(e, key, value) ==
    [k \in DOMAIN e \cup {key} |-> IF k = key THEN value ELSE e[k]]

\* The first loop: every KEY=value argument is written into updatedEnv, in
\* the order of the arguments.
RECURSIVE ApplyArgs(_, _)
ApplyArgs(args, e) ==
    IF args = <<>>
    THEN e
    ELSE LET match == MatchKeyValue(Head(args))
         IN  ApplyArgs(Tail(args),
                       IF match.matched
                       THEN SetEnv(e, match.key, stripOuterQuotes(match.value))
                       ELSE e)

\* updatedEnv.KEY || fallback
EnvOr(e, key, fallback) ==
    IF key \in DOMAIN e /\ e[key] # <<>> THEN e[key] ELSE fallback

\* args[i] as a condition (i counts from 1 here): undefined past the end of
\* the array and the empty string are falsy.
Truthy(args, i) == i <= Len(args) /\ args[i] # <<>>

\* The second loop, from index i on: a flag followed by a truthy argument
\* takes it as its value and skips it.
RECURSIVE ScanFlags(_, _, _)
ScanFlags(args, i, r) ==
    IF i > Len(args)
    THEN r
    ELSE IF args[i] = FLAG_TRANSPORT /\ Truthy(args, i + 1)
    THEN ScanFlags(args, i + 2, [r EXCEPT !.transport = args[i + 1]])
    ELSE IF args[i] = FLAG_PORT /\ Truthy(args, i + 1)
    THEN ScanFlags(args, i + 2, [r EXCEPT !.portRaw = args[i + 1]])
    ELSE ScanFlags(args, i + 1, r)

MapDeprecatedSse_KeepsSse(transport) ==
    [transport |-> transport, usedDeprecatedSse |-> transport = SSE]

\* if (transport === "sse") { usedDeprecatedSse = true; transport = "http"; }
MapDeprecatedSse(transport) ==
    IF transport = SSE
    THEN [transport |-> HTTP, usedDeprecatedSse |-> TRUE]
    ELSE [transport |-> transport, usedDeprecatedSse |-> FALSE]

parseCliConfig(args, e) ==
    LET updatedEnv == ApplyArgs(args, e)
        fromEnv == [transport |-> EnvOr(updatedEnv, MCP_TRANSPORT, STDIO),
                    portRaw |-> EnvOr(updatedEnv, MCP_PORT, DEFAULT_PORT)]
        resolved == ScanFlags(args, 1, fromEnv)
        mapped == MapDeprecatedSse(resolved.transport)
    IN  [transport |-> mapped.transport,
         port |-> parseInt10(resolved.portRaw),
         portRaw |-> resolved.portRaw,
         updatedEnv |-> updatedEnv,
         usedDeprecatedSse |-> mapped.usedDeprecatedSse]

(***************************************************************************)
(* The parseCliConfig call of the start-up.                                *)
(*   pc      "idle", then "parsed"                                         *)
(*   args    process.argv.slice(2)                                         *)
(*   env     process.env                                                   *)
(*   result  the CliConfig returned                                        *)
(***************************************************************************)
IdleCli ==
    [pc |-> "idle", args |-> <<>>, env |-> NoEnv,
     result |-> [transport |-> <<>>, port |-> NaN, portRaw |-> <<>>,
                 updatedEnv |-> NoEnv, usedDeprecatedSse |-> FALSE]]

(***************************************************************************)
(* Pagination of a list tool's result (utils.ts 4-54).  An item is known   *)
(* by its place in the list it came from, and by the number of characters  *)
(* it takes in the rendered text; a rendered text is known by its length.  *)
(* The lengths are scaled down: constants.ts is not among the sources, and *)
(* the code compares the length with CHARACTER_LIMIT and nothing else.     *)
(***************************************************************************)
CHARACTER_LIMIT == 8

\* What JSON.stringify adds around the items, and for the two fields of a
\* truncated output.
JSON_FIELDS_LENGTH == 2

JSON_TRUNCATION_LENGTH == 3

Item(id, size) == [id |-> id, size |-> size]

NoOffset == [present |-> FALSE, value |-> 0]

Offset(n) == [present |-> TRUE, value |-> n]

\* Array.prototype.slice(start, end): a negative index counts from the end,
\* and both are clamped to the array.
SliceIndex(len, k) == IF k < 0 THEN Max(len + k, 0) ELSE Min(k, len)

Slice(items, start, end) ==
    LET from == SliceIndex(Len(items), start)
        to == SliceIndex(Len(items), end)
    IN  IF to <= from THEN <<>> ELSE SubSeq(items, from + 1, to)

paginateArray_HasMoreWhenFull(items, offset, limit) ==
    LET pagedItems == Slice(items, offset, offset + limit)
        hasMore == Len(pagedItems) = limit
    IN  [total |-> Len(items),
         count |-> Len(pagedItems),
         offset |-> offset,
         items |-> pagedItems,
         has_more |-> hasMore,
         next_offset |-> IF hasMore THEN Offset(offset + Len(pagedItems))
                         ELSE NoOffset]

paginateArray(items, offset, limit) ==
    LET total == Len(items)
        pagedItems == Slice(items, offset, offset + limit)
        hasMore == offset + Len(pagedItems) < total
    IN  [total |-> total,
         count |-> Len(pagedItems),
         offset |-> offset,
         items |-> pagedItems,
         has_more |-> hasMore,
         next_offset |-> IF hasMore THEN Offset(offset + Len(pagedItems))
                         ELSE NoOffset]

\* { ...paged }: the object applyCharacterLimit is given, which has no
\* `truncated` and no `truncation_message` yet.
SpreadPaged(paged) ==
    [total |-> paged.total, count |-> paged.count, offset |-> paged.offset,
     items |-> paged.items, has_more |-> paged.has_more,
     next_offset |-> paged.next_offset, truncated |-> FALSE]

RECURSIVE SizeOf(_)
SizeOf(items) ==
    IF items = <<>> THEN 0 ELSE Head(items).size + SizeOf(Tail(items))

\* current.items.map(format).join("\n")
markdownRenderer(current) ==
    SizeOf(current.items) + Max(Len(current.items) - 1, 0)

\* JSON.stringify(structuredContent, null, 2)
JSONStringify(structuredContent) ==
    JSON_FIELDS_LENGTH + SizeOf(structuredContent.items)
      + Len(structuredContent.items)
      + (IF structuredContent.truncated THEN JSON_TRUNCATION_LENGTH ELSE 0)

formatOutput(responseFormat, markdown, structuredContent) ==
    IF responseFormat = "json" THEN JSONStringify(structuredContent) ELSE markdown

\* The rendered text of an output, as applyCharacterLimit computes it.
Render(responseFormat, output) ==
    formatOutput(responseFormat, markdownRenderer(output), output)

OverLimit_UntilEmpty(output, rendered) ==
    rendered > CHARACTER_LIMIT /\ Len(output.items) > 0

\* The condition of the while loop of applyCharacterLimit.
OverLimit(output, rendered) ==
    rendered > CHARACTER_LIMIT /\ Len(output.items) > 1

TruncateOutput_KeepsPaging(output) ==
    LET items == Slice(output.items, 0, (Len(output.items) + 1) \div 2)
    IN  [output EXCEPT !.items = items,
                       !.count = Len(items),
                       !.truncated = TRUE]

\* The body of the loop, without the rendering: the first half of the items
\* (Math.ceil) is kept.
TruncateOutput(output) ==
    LET items == Slice(output.items, 0, (Len(output.items) + 1) \div 2)
    IN  [output EXCEPT !.items = items,
                       !.count = Len(items),
                       !.has_more = TRUE,
                       !.next_offset = Offset(output.offset + Len(items)),
                       !.truncated = TRUE]

NoOutput ==
    [total |-> 0, count |-> 0, offset |-> 0, items |-> <<>>, has_more |-> FALSE,
     next_offset |-> NoOffset, truncated |-> FALSE]

(***************************************************************************)
(* A client paging through the result of a list tool.                      *)
(*   pc        "idle", "request" (the tool has been called), "limiting"    *)
(*             (applyCharacterLimit is at the head of its loop),           *)
(*             "returned" (the client has the page)                        *)
(*   all       the items the API returns for the list                      *)
(*   limit, offset, response_format   the arguments of the tool call       *)
(*   paged     what paginateArray returned                                 *)
(*   output    the structuredContent                                       *)
(*   rendered  the length of the rendered text                             *)
(*   received  the ids of the items of the pages returned so far           *)
(***************************************************************************)
IdleListing ==
    [pc |-> "idle", all |-> <<>>, limit |-> 0, offset |-> 0,
     response_format |-> "markdown", paged |-> NoOutput, output |-> NoOutput,
     rendered |-> 0, received |-> <<>>]

(***************************************************************************)
(* The delete tools (model-objects.ts 368-389, connections.ts 418-435) and *)
(* the client functions they call (utils.ts 563-572, 615-623, 683-694,     *)
(* 723-732).  A path is the sequence of the parts of its template.         *)
(***************************************************************************)
DELETE_MODEL_OBJECT == "icepanel_delete_model_object"

DELETE_CONNECTION == "icepanel_delete_connection"

\* `/landscapes/${landscapeId}/versions/${versionId}/model/objects/${id}`
ModelObjectPath(landscapeId, versionId, modelObjectId) ==
    <<"/landscapes/", landscapeId, "/versions/", versionId, "/model/objects/",
      modelObjectId>>

\* `/landscapes/${landscapeId}/versions/${versionId}/model/connections/${id}`
ConnectionPath(landscapeId, versionId, connectionId) ==
    <<"/landscapes/", landscapeId, "/versions/", versionId, "/model/connections/",
      connectionId>>

GetOptions == [method |-> UnsetS, headers |-> NoHeaders, signal |-> "none"]

DeleteOptions == [method |-> S("DELETE"), headers |-> NoHeaders, signal |-> "none"]

\* The path of getModelObject(landscapeId, id) / getConnection(landscapeId,
\* "latest", id).
GetPath(name, landscapeId, id) ==
    IF name = DELETE_MODEL_OBJECT
    THEN ModelObjectPath(landscapeId, "latest", id)
    ELSE ConnectionPath(landscapeId, "latest", id)

\* The path of deleteModelObject(landscapeId, id) / deleteConnection(
\* landscapeId, id), whose versionId defaults to "latest".
DeletePath(name, landscapeId, id) ==
    IF name = DELETE_MODEL_OBJECT
    THEN ModelObjectPath(landscapeId, "latest", id)
    ELSE ConnectionPath(landscapeId, "latest", id)

\* The property of the GET's result the tool reads the name from.
EntityKey(name) ==
    IF name = DELETE_MODEL_OBJECT THEN "modelObject" ELSE "modelConnection"

\* existing.modelObject.name / existing.modelConnection.name can be read.
HasName(existing, name) == existing.holds = EntityKey(name)

\* What reading `.name` of undefined throws.
ReadNameTypeError ==
    [NoError EXCEPT !.class = "TypeError", !.name = "TypeError",
                    !.message = "Cannot read properties of undefined (reading 'name')"]

\* error.body?.message
BodyMessage(error) == error.body.message

\* handleApiError(error) (utils.ts 314-339), as the parts of the text.
handleApiError(error) ==
    IF error.class = "IcePanelApiError"
    THEN CASE error.status = 400 ->
                <<"Error: Invalid request.",
                  IF BodyMessage(error) # "" THEN "Details: " ELSE "",
                  BodyMessage(error)>>
           [] error.status = 401 -> <<"Error: Authentication failed.">>
           [] error.status = 403 -> <<"Error: Permission denied.">>
           [] error.status = 404 -> <<"Error: Resource not found.">>
           [] error.status = 409 -> <<"Error: Conflict.">>
           [] error.status = 422 ->
                <<"Error: Validation failed. ",
                  IF BodyMessage(error) # "" THEN "Details: "
                  ELSE "Check input parameters.",
                  BodyMessage(error)>>
           [] error.status = 429 -> <<"Error: Rate limit exceeded.">>
           [] OTHER ->
                <<"Error: API request failed (", error.status, "). ",
                  IF BodyMessage(error) # "" THEN BodyMessage(error)
                  ELSE error.statusText>>
    ELSE <<"Error: ", error.message>>

NoResult == [returned |-> FALSE, threw |-> FALSE, isError |-> FALSE, text |-> <<>>]

\* return { content, structuredContent: { deleted } }
Deleted == [returned |-> TRUE, threw |-> FALSE, isError |-> FALSE,
            text |-> <<"Deleted">>]

ToolCatch_Rethrows(error) ==
    [returned |-> FALSE, threw |-> TRUE, isError |-> FALSE, text |-> <<>>]

\* catch (error) { return { isError: true, content: [... handleApiError(error)] } }
ToolCatch(error) ==
    [returned |-> TRUE, threw |-> FALSE, isError |-> TRUE,
     text |-> handleApiError(error)]

AwaitSucceeded_Always(r) == TRUE

\* `await <promise>` of a settled call goes on with the next statement, and
\* to the catch block when the promise was rejected.
AwaitSucceeded(r) == r.outcome = "resolved"

(***************************************************************************)
(* One call of a delete tool.  Its GET is the apiRequest call "c1", its    *)
(* DELETE the call "c2".                                                   *)
(*   pc        "idle", "getting" (await getModelObject / getConnection),   *)
(*             "deleting" (await deleteModelObject / deleteConnection),    *)
(*             "done"                                                      *)
(*   name      the tool                                                    *)
(*   id        modelObjectId / connectionId                                *)
(*   existing  the value the GET resolved with                             *)
(*   result    what the handler returned, or that it threw                 *)
(***************************************************************************)
IdleDelete ==
    [pc |-> "idle", name |-> "", id |-> "", existing |-> Undefined,
     result |-> NoResult]

(***************************************************************************)
(* State.                                                                  *)
(*   env          process.env, as the process was started                  *)
(*   moduleState  "unloaded" until the module's top-level code has run,    *)
(*                then "loaded", or "failed" when it threw                 *)
(*   loadError    the message of the Error the module's evaluation threw   *)
(*   API_*        the module-level constants (0 / "" until initialised)    *)
(*   mayCall      the calls the tool layer is going to make                *)
(*   call         each apiRequest call's local variables (see IdleCall)    *)
(*   tool         the icepanel_list_model_objects tool call (see IdleTool) *)
(*   cli          the parseCliConfig call of the start-up (see IdleCli)    *)
(*   listing      a client paging through a list (see IdleListing)         *)
(*   deleteTool   a call of one of the delete tools (see IdleDelete)       *)
(***************************************************************************)
VARIABLES env, moduleState, loadError, API_BASE_URL, API_TIMEOUT_MS,
          API_MAX_RETRIES, API_RETRY_BASE_DELAY_MS, mayCall, call, tool,
          cli, listing, deleteTool

vars == <<env, moduleState, loadError, API_BASE_URL, API_TIMEOUT_MS,
          API_MAX_RETRIES, API_RETRY_BASE_DELAY_MS, mayCall, call, tool,
          cli, listing, deleteTool>>

\* The code outside the client module and the list_model_objects tool.
others == <<cli, listing, deleteTool>>

\* What the client module holds once it is loaded.
settings == <<env, moduleState, loadError, API_BASE_URL, API_TIMEOUT_MS,
              API_MAX_RETRIES, API_RETRY_BASE_DELAY_MS, mayCall>>

\* Everything but the calls.
config == <<settings, tool, others>>

Calls == {"c1", "c2"}

API_PATH == "/organizations/org/landscapes"

(***************************************************************************)
(* The local state of one apiRequest call.                                 *)
(*   pc          "idle" (not called), "fetching" (await fetch),             *)
(*               "reading_text" (await response.text()), "reading_json"    *)
(*               (await response.json()), "sleeping" (await sleep),        *)
(*               "settled" (the promise is resolved or rejected)           *)
(*   url, query  the base URL and path of the request, and the pairs of    *)
(*               its query string                                          *)
(*   optionsHeaders  options.headers, as the caller passed it              *)
(*   headers     the `headers` object every fetch call of the call is given*)
(*   signal      options.signal: "none", "live" or "aborted"               *)
(*   attempt     the loop variable                                         *)
(*   aborted     the attempts whose AbortController has been aborted       *)
(*   timers      the pending setTimeout timers, by attempt and duration    *)
(*   listeners   the attempts whose abortListener is on options.signal     *)
(*   fetchCalls  how many times fetch was called                           *)
(*   netRequests how many requests fetch put on the network (a fetch with  *)
(*               an already aborted signal rejects without one)            *)
(*   error       the error built or caught in the current iteration; the   *)
(*               rejection reason once the call is settled                 *)
(*   n503        how many attempts received a 503 response                 *)
(*   delays      the sleep durations of the call so far                    *)
(***************************************************************************)
IdleCall ==
    [pc |-> "idle", url |-> <<"", "">>, method |-> "", canRetry |-> FALSE,
     query |-> <<>>, optionsHeaders |-> NoHeaders, headers |-> NoProperties,
     signal |-> "none", attempt |-> 0, aborted |-> {}, timers |-> {},
     listeners |-> {}, response |-> NoResponse, outcome |-> "pending",
     value |-> Undefined, error |-> NoError, sleepMs |-> 0, delays |-> <<>>,
     fetchCalls |-> 0, netRequests |-> 0, n503 |-> 0]

InFlight(r) == r.pc \in {"fetching", "reading_text", "reading_json"}

\* Mutant of getRetryDelay: the cap is forgotten.
getRetryDelay_NoCap(attempt) == API_RETRY_BASE_DELAY_MS * Pow2(attempt)

\* Mutant of getRetryDelay: the exponent is forgotten, every wait is the base
\* delay.
getRetryDelay_FixedDelay(attempt) ==
    Min(API_RETRY_BASE_DELAY_MS, MAX_API_RETRY_BASE_DELAY_MS)

\* utils.ts getRetryDelay
getRetryDelay(attempt) ==
    LET delay == API_RETRY_BASE_DELAY_MS * Pow2(attempt)
    IN  Min(delay, MAX_API_RETRY_BASE_DELAY_MS)

\* The loop condition of apiRequest.
LoopCondition(attempt) == attempt <= API_MAX_RETRIES

\* Mutant of RetryAllowed: `attempt <= API_MAX_RETRIES`, one retry more than
\* the loop has iterations for.
RetryAllowed_OneTooMany(r) == r.canRetry /\ r.attempt <= API_MAX_RETRIES

\* Mutant of RetryAllowed: the last retry of the budget is never made.
RetryAllowed_OffByOne(r) == r.canRetry /\ r.attempt + 1 < API_MAX_RETRIES

\* `canRetry && attempt < API_MAX_RETRIES`, the first two conjuncts of
\* both retry conditions.
RetryAllowed(r) == r.canRetry /\ r.attempt < API_MAX_RETRIES

\* Mutant of Finally: the finally block is missing.
Finally_Missing(r) == r

\* The finally block: clearTimeout(timeoutId) and removeEventListener.
Finally(r) ==
    [r EXCEPT !.timers = {t \in @ : t.attempt # r.attempt},
              !.listeners = @ \ {r.attempt}]

\* `return value` inside the try: the finally block runs, the promise resolves.
Return(r, v) ==
    [Finally(r) EXCEPT !.pc = "settled", !.outcome = "resolved", !.value = v]

\* `throw error` out of the catch block: the finally block runs, the
\* promise rejects.
Throw(r, error) ==
    [Finally(r) EXCEPT !.pc = "settled", !.outcome = "rejected", !.error = error]

\* `await sleep(getRetryDelay(attempt))` with `error` (the caught error, or
\* the apiError just built) in scope; nothing reads the response of the
\* failed attempt any more.
Sleep(r, error) ==
    LET ms == getRetryDelay(r.attempt)
    IN  [r EXCEPT !.pc = "sleeping", !.sleepMs = ms, !.delays = Append(@, ms),
                  !.response = NoResponse, !.error = error]

\* Mutant of Catch: an error that is not retried is swallowed, the call
\* returns undefined.
Catch_Swallows(r, error) ==
    IF RetryAllowed(r) /\ isRetryableError(error, r.signal = "aborted")
    THEN Sleep(r, error)
    ELSE Return(r, Undefined)

\* The catch block.
Catch(r, error) ==
    IF RetryAllowed(r) /\ isRetryableError(error, r.signal = "aborted")
    THEN Sleep(r, error)
    ELSE Throw(r, error)

\* Mutant of StartAttempt: `if (options.signal.aborted) controller.abort()`
\* is missing; a listener added to an aborted signal never runs.
StartAttempt_NoAbortedCheck(r) ==
    LET k == r.attempt
        r1 == [r EXCEPT !.timers = @ \cup {[attempt |-> k, ms |-> API_TIMEOUT_MS]},
                        !.response = NoResponse, !.sleepMs = 0]
        r2 == IF r.signal = "live" THEN [r1 EXCEPT !.listeners = @ \cup {k}] ELSE r1
    IN  [r2 EXCEPT !.pc = "fetching", !.fetchCalls = @ + 1, !.netRequests = @ + 1]

\* The head of one loop iteration up to `await fetch(...)`: a fresh
\* controller, the timeout timer, the abort listener (or an immediate
\* abort), and the call of fetch.  fetch with an aborted signal rejects
\* at once with an AbortError and sends nothing.
StartAttempt(r) ==
    LET k == r.attempt
        r1 == [r EXCEPT !.timers = @ \cup {[attempt |-> k, ms |-> API_TIMEOUT_MS]},
                        !.response = NoResponse, !.sleepMs = 0]
        r2 == IF r.signal = "aborted" THEN [r1 EXCEPT !.aborted = @ \cup {k}]
              ELSE IF r.signal = "live" THEN [r1 EXCEPT !.listeners = @ \cup {k}]
              ELSE r1
        r3 == [r2 EXCEPT !.fetchCalls = @ + 1]
    IN  IF k \in r3.aborted
        THEN Catch(r3, AbortError(k, "external"))
        ELSE [r3 EXCEPT !.pc = "fetching", !.netRequests = @ + 1]

\* The for loop from its condition on; after the loop the function throws.
Loop(r) ==
    IF LoopCondition(r.attempt)
    THEN StartAttempt(r)
    ELSE [r EXCEPT !.pc = "settled", !.outcome = "rejected",
                   !.error = PlainError(ERR_UNEXPECTED, r.attempt)]

\* `continue`: the finally block, attempt++, and the next iteration.  The
\* controller and the error of the finished iteration are unreachable from
\* here on.
Continue(r) ==
    LET r1 == Finally(r)
    IN  Loop([r1 EXCEPT !.attempt = @ + 1, !.aborted = {}, !.error = NoError])

(***************************************************************************)
(* The environments and call options the model starts from.                *)
(***************************************************************************)
RetriesEnvValues ==
    {Unset, Str(<<"0">>), Str(<<"1">>), Str(<<"3">>), Str(<<"4">>), Str(<<"5">>)}

BaseDelayEnvValues == {Unset, Str(<<"5", "0", "0", "0">>)}

ApiKeyEnvValues == {UnsetS, S(""), S("key-1")}

MethodOptions == {UnsetS, S("HEAD"), S("POST"), S("PATCH"), S("delete")}

OptionsSet ==
    [method : MethodOptions, headers : {NoHeaders},
     signal : {"none", "live", "aborted"}]

Envs ==
    [API_KEY : ApiKeyEnvValues,
     ICEPANEL_API_BASE_URL : {UnsetS},
     ICEPANEL_API_ALLOW_INSECURE : {UnsetS},
     ICEPANEL_API_TIMEOUT_MS : {Unset},
     ICEPANEL_API_MAX_RETRIES : RetriesEnvValues,
     ICEPANEL_API_RETRY_BASE_DELAY_MS : BaseDelayEnvValues]

\* The process has started with `e` as its environment and the module has
\* not been evaluated yet.
Started(e, callers) ==
    /\ env = e
    /\ moduleState = "unloaded"
    /\ loadError = ""
    /\ API_BASE_URL = ""
    /\ API_TIMEOUT_MS = 0
    /\ API_MAX_RETRIES = 0
    /\ API_RETRY_BASE_DELAY_MS = 0
    /\ mayCall = callers
    /\ call = [c \in Calls |-> IdleCall]
    /\ tool = IdleTool
    /\ cli = IdleCli
    /\ listing = IdleListing
    /\ deleteTool = IdleDelete

Init == \E e \in Envs : Started(e, {"c1"})

(***************************************************************************)
(* Evaluation of the module's top-level code (utils.ts 249, 273-280): the  *)
(* base URL is validated first; if that throws, nothing after it runs and  *)
(* the module cannot be imported.                                          *)
(***************************************************************************)
LoadModule ==
    /\ moduleState = "unloaded"
    /\ LET u == getValidatedApiBaseUrl(env)
       IN  IF u.threw
           THEN /\ moduleState' = "failed"
                /\ loadError' = u.message
                /\ UNCHANGED <<API_BASE_URL, API_TIMEOUT_MS, API_MAX_RETRIES,
                               API_RETRY_BASE_DELAY_MS>>
           ELSE /\ moduleState' = "loaded"
                /\ loadError' = ""
                /\ API_BASE_URL' = u.url
                /\ API_TIMEOUT_MS' =
                     parseEnvInt(env.ICEPANEL_API_TIMEOUT_MS, DEFAULT_API_TIMEOUT_MS,
                                 MIN_API_TIMEOUT_MS, MAX_API_TIMEOUT_MS)
                /\ API_MAX_RETRIES' =
                     parseEnvInt(env.ICEPANEL_API_MAX_RETRIES, DEFAULT_API_MAX_RETRIES,
                                 MIN_API_RETRIES, MAX_API_RETRIES)
                /\ API_RETRY_BASE_DELAY_MS' =
                     parseEnvInt(env.ICEPANEL_API_RETRY_BASE_DELAY_MS,
                                 DEFAULT_API_RETRY_BASE_DELAY_MS,
                                 MIN_API_RETRY_BASE_DELAY_MS, MAX_API_RETRY_BASE_DELAY_MS)
    /\ UNCHANGED <<env, mayCall, call, tool, others>>

(***************************************************************************)
(* apiRequest(path, options) up to its first await (utils.ts 342-373).     *)
(***************************************************************************)
\* The call record apiRequest(path ? query, options) leaves at its first
\* await, or settled if it threw before.
StartCall(r0, path, query, options) ==
    LET key == getApiKey(env)
        method == MethodOf(options)
        r == [r0 EXCEPT !.url = <<API_BASE_URL, path>>,
                        !.query = query,
                        !.method = method,
                        !.canRetry = CanRetry(method),
                        !.optionsHeaders = options.headers,
                        !.signal = options.signal]
    IN  IF key.threw
        THEN [r EXCEPT !.pc = "settled", !.outcome = "rejected",
                       !.error = PlainError(key.message, 0)]
        ELSE Loop([r EXCEPT !.headers = MergeHeaders(key.key, options.headers)])

ApiRequest(c, options) ==
    /\ moduleState = "loaded"
    /\ c \in mayCall
    /\ call[c].pc = "idle"
    /\ call' = [call EXCEPT ![c] = StartCall(call[c], API_PATH, <<>>, options)]
    /\ UNCHANGED config

Call(c) == \E options \in OptionsSet : ApiRequest(c, options)

(***************************************************************************)
(* getModelObjects(landscapeId, "latest", { filter }) (utils.ts 537-558):  *)
(* the query is built from the filter and apiRequest is called.            *)
(***************************************************************************)
getModelObjects(c, landscapeId, filter) ==
    /\ moduleState = "loaded"
    /\ c \in mayCall
    /\ call[c].pc = "idle"
    /\ LET params == buildFilterParams(filter)
       IN  /\ tool' = [tool EXCEPT !.pc = "called", !.filter = filter,
                                   !.params = params]
           /\ call' = [call EXCEPT ![c] =
                         StartCall(call[c], ModelObjectsPath(landscapeId, "latest"),
                                   params,
                                   [method |-> UnsetS, headers |-> NoHeaders,
                                    signal |-> "none"])]
    /\ UNCHANGED <<settings, others>>

\* The MCP server validates the arguments of a tool call against the
\* tool's inputSchema before it runs the handler.
ParseToolInput(input) ==
    /\ moduleState = "loaded"
    /\ tool.pc = "idle"
    /\ LET result == ListModelObjectsSchema(input)
       IN  tool' = [tool EXCEPT !.pc = IF result.ok THEN "parsed" ELSE "invalid",
                                !.input = input, !.parsed = result.value]
    /\ UNCHANGED <<settings, call, others>>

\* The handler of icepanel_list_model_objects up to its first await
\* (model-objects.ts 137-141).
ListModelObjectsHandler(c) ==
    /\ tool.pc = "parsed"
    /\ getModelObjects(c, Get(tool.parsed, "landscapeId").str, RestFilters(tool.parsed))

\* getModelObjects called by other code, with a filter of its own.
GetModelObjectsDirect(c, filter) ==
    /\ tool.pc = "idle"
    /\ getModelObjects(c, LANDSCAPE_ID, filter)


(***************************************************************************)
(* `await fetch(...)` resolves with a response (utils.ts 369-398).         *)
(***************************************************************************)
Respond(c, status, text) ==
    /\ call[c].pc = "fetching"
    /\ LET response == Response(status, text)
           r == [call[c] EXCEPT !.response = response,
                                !.n503 = IF status = 503 THEN @ + 1 ELSE @]
       IN  call' = [call EXCEPT ![c] =
                      IF ~ResponseOk(response) THEN [r EXCEPT !.pc = "reading_text"]
                      ELSE IF IsNoContent(response) THEN Return(r, EmptyObject)
                      ELSE [r EXCEPT !.pc = "reading_json"]]
    /\ UNCHANGED config

FetchResponds(c) == \E status \in Statuses, text \in Texts : Respond(c, status, text)

\* `await response.text()` resolves (utils.ts 376-390).
TextRead(c) ==
    /\ call[c].pc = "reading_text"
    /\ LET r == call[c]
           rawText == r.response.text
           body == ErrorBody(rawText)
           apiError == IcePanelApiError(r.response.status, r.response.statusText,
                                        body, r.attempt)
       IN  call' = [call EXCEPT ![c] =
                      IF RetryAllowed(r) /\ isRetryableStatus(r.response.status)
                      THEN Sleep(r, apiError)
                      ELSE Catch(r, apiError)]
    /\ UNCHANGED config

\* `await response.json()` settles (utils.ts 397-398).
JsonRead(c) ==
    /\ call[c].pc = "reading_json"
    /\ LET r == call[c]
           parsed == JSONParse(r.response.text)
       IN  call' = [call EXCEPT ![c] =
                      IF parsed.ok THEN Return(r, parsed.value)
                      ELSE Catch(r, JsonSyntaxError(r.attempt))]
    /\ UNCHANGED config

\* The connection fails while the request or its body is in flight: the
\* pending await rejects with a TypeError.
NetworkFailure(c) ==
    /\ InFlight(call[c])
    /\ call' = [call EXCEPT ![c] = Catch(call[c], NetworkTypeError(call[c].attempt))]
    /\ UNCHANGED config

\* Mutant of TimeoutFires: the AbortController is one object shared by the
\* calls, so a timer of one call aborts every request in flight.
TimeoutFires_SharedController(c) ==
    /\ \E t \in call[c].timers :
         call' = [d \in Calls |->
                    LET r == call[d]
                        r1 == IF d = c
                              THEN [r EXCEPT !.timers = @ \ {t},
                                             !.aborted = @ \cup {t.attempt}]
                              ELSE [r EXCEPT !.aborted = @ \cup {r.attempt}]
                    IN  IF InFlight(r) /\ (d # c \/ t.attempt = r.attempt)
                        THEN Catch(r1, AbortError(r.attempt, "timeout"))
                        ELSE IF d = c THEN r1 ELSE r]
    /\ UNCHANGED config

\* A pending timeout timer fires: `() => controller.abort()` (utils.ts 357).
TimeoutFires(c) ==
    /\ \E t \in call[c].timers :
         LET r == call[c]
             r1 == [r EXCEPT !.timers = @ \ {t}, !.aborted = @ \cup {t.attempt}]
         IN  call' = [call EXCEPT ![c] =
                        IF t.attempt = r.attempt /\ InFlight(r)
                        THEN Catch(r1, AbortError(r.attempt, "timeout"))
                        ELSE r1]
    /\ UNCHANGED config

\* The caller aborts options.signal: every abortListener still attached
\* runs once (utils.ts 358, 364).
ExternalAbort(c) ==
    /\ call[c].pc # "idle"
    /\ call[c].signal = "live"
    /\ LET r == call[c]
           r1 == [r EXCEPT !.signal = "aborted", !.aborted = @ \cup r.listeners,
                           !.listeners = {}]
       IN  call' = [call EXCEPT ![c] =
                      IF r.attempt \in r.listeners /\ InFlight(r)
                      THEN Catch(r1, AbortError(r.attempt, "external"))
                      ELSE r1]
    /\ UNCHANGED config

\* The backoff sleep ends: `continue` (utils.ts 386-387, 401-402).
SleepDone(c) ==
    /\ call[c].pc = "sleeping"
    /\ call' = [call EXCEPT ![c] = Continue(call[c])]
    /\ UNCHANGED config

Next ==
    \/ LoadModule
    \/ \E c \in Calls :
         \/ Call(c)
         \/ FetchResponds(c)
         \/ TextRead(c)
         \/ JsonRead(c)
         \/ NetworkFailure(c)
         \/ TimeoutFires(c)
         \/ ExternalAbort(c)
         \/ SleepDone(c)

Spec == Init /\ [][Next]_vars

(***************************************************************************)
(* The backoff schedule on its own: every base delay the configuration     *)
(* admits, with a GET call whose attempts fail with a 503 or a network     *)
(* failure until the retries are used up.                                  *)
(***************************************************************************)
DigitChar(d) ==
    CASE d = 0 -> "0" [] d = 1 -> "1" [] d = 2 -> "2" [] d = 3 -> "3"
      [] d = 4 -> "4" [] d = 5 -> "5" [] d = 6 -> "6" [] d = 7 -> "7"
      [] d = 8 -> "8" [] d = 9 -> "9"

\* The decimal digits of a natural number, as the environment holds them.
RECURSIVE ToChars(_)
ToChars(n) ==
    IF n < 10 THEN <<DigitChar(n)>>
    ELSE Append(ToChars(n \div 10), DigitChar(n % 10))

BaseDelays == MIN_API_RETRY_BASE_DELAY_MS..MAX_API_RETRY_BASE_DELAY_MS

BackoffEnv(retries, base) ==
    [API_KEY |-> S("key-1"),
     ICEPANEL_API_BASE_URL |-> UnsetS,
     ICEPANEL_API_ALLOW_INSECURE |-> UnsetS,
     ICEPANEL_API_TIMEOUT_MS |-> Unset,
     ICEPANEL_API_MAX_RETRIES |-> retries,
     ICEPANEL_API_RETRY_BASE_DELAY_MS |-> Str(ToChars(base))]

BackoffInit ==
    \/ \E base \in BaseDelays : Started(BackoffEnv(Str(<<"5">>), base), {"c1"})
    \/ \E base \in {50, 300, 2500, 5000}, retries \in RetriesEnvValues :
         Started(BackoffEnv(retries, base), {"c1"})

BackoffNext ==
    \/ LoadModule
    \/ \E c \in Calls :
         \/ ApiRequest(c, [method |-> UnsetS, headers |-> NoHeaders, signal |-> "none"])
         \/ Respond(c, 503, TEXT_EMPTY)
         \/ TextRead(c)
         \/ NetworkFailure(c)
         \/ SleepDone(c)

BackoffSpec == BackoffInit /\ [][BackoffNext]_vars

(***************************************************************************)
(* The base URL validation on its own: every sample base URL with every    *)
(* sample value of ICEPANEL_API_ALLOW_INSECURE, and the calls made after.  *)
(***************************************************************************)
UrlEnvValues ==
    {UnsetS, S(""), S(URL_STAGING), S(URL_HTTP), S(URL_HTTP_UPPER), S(URL_FTP),
     S(URL_NO_SCHEME)}

AllowInsecureEnvValues ==
    {UnsetS, S(""), S("1"), S("true"), S("YES"), S("false"), S("True"), S("0")}

UrlEnvs ==
    [API_KEY : {S("key-1")},
     ICEPANEL_API_BASE_URL : UrlEnvValues,
     ICEPANEL_API_ALLOW_INSECURE : AllowInsecureEnvValues,
     ICEPANEL_API_TIMEOUT_MS : {Unset},
     ICEPANEL_API_MAX_RETRIES : {Str(<<"1">>)},
     ICEPANEL_API_RETRY_BASE_DELAY_MS : {Unset}]

UrlInit == \E e \in UrlEnvs : Started(e, {"c1"})

UrlSpec == UrlInit /\ [][Next]_vars

(***************************************************************************)
(* The numeric settings on their own: the module is loaded with every      *)
(* combination of sample values of the three environment variables.        *)
(***************************************************************************)
\* The string of n characters ch.
Repeat(ch, n) == [i \in 1..n |-> ch]

\* Plain decimal integers, written without sign or padding.
IntSamples ==
    {0, 1, 5, 6, 49, 50, 300, 999, 1000, 5000, 5001, 30000, 120000, 120001}

\* Values Number.parseInt finds no finite integer in: unset, empty, no
\* leading digit, or more digits than a double can hold.
NonNumericSamples ==
    {Str(<<"a", "b", "c">>), Str(<<"-">>), Str(<<"m", "s", "5", "0", "0">>)}

BeyondDoubleSamples ==
    {Str(Repeat("9", 310)), Str(<<"-">> \o Repeat("9", 310)), Str(Repeat("9", 309))}

\* Integers far above every maximum that a double still holds.
LargeFiniteSamples ==
    {Str(Repeat("9", 11)), Str(<<"1">> \o Repeat("0", 308))}

\* Values that start with an integer, and the integer they start with.
PrefixSamples ==
    {[raw |-> Str(<<" ", "4", "2">>), value |-> 42],
     [raw |-> Str(<<"1", "2", "a", "b", "c">>), value |-> 12],
     [raw |-> Str(<<"3", ".", "7">>), value |-> 3],
     [raw |-> Str(<<"+", "7">>), value |-> 7],
     [raw |-> Str(<<"1", "e", "3">>), value |-> 1],
     [raw |-> Str(<<"0", "0", "7">>), value |-> 7],
     [raw |-> Str(<<"-", "5">>), value |-> 0 - 5]}

ConfigEnvValues ==
    {Unset, Str(<<>>)} \cup NonNumericSamples \cup BeyondDoubleSamples
      \cup LargeFiniteSamples \cup {p.raw : p \in PrefixSamples}
      \cup {Str(ToChars(n)) : n \in IntSamples}

ConfigEnvs ==
    [API_KEY : {S("key-1")},
     ICEPANEL_API_BASE_URL : {UnsetS},
     ICEPANEL_API_ALLOW_INSECURE : {UnsetS},
     ICEPANEL_API_TIMEOUT_MS : ConfigEnvValues,
     ICEPANEL_API_MAX_RETRIES : ConfigEnvValues,
     ICEPANEL_API_RETRY_BASE_DELAY_MS : ConfigEnvValues]

ConfigInit == \E e \in ConfigEnvs : Started(e, {})

ConfigNext == LoadModule

ConfigSpec == ConfigInit /\ [][ConfigNext]_vars

(***************************************************************************)
(* The request headers on their own: calls that pass sample values of      *)
(* options.headers, with every method and every response.                  *)
(***************************************************************************)
HeaderOptions ==
    {NoHeaders,
     HeadersObject(NoProperties),
     HeadersObject("X-Trace" :> <<"1">>),
     HeadersObject("Authorization" :> <<"Bearer token">>),
     HeadersObject(("Content-Type" :> <<"text/plain">>) @@ ("X-Trace" :> <<"1">>)),
     HeadersObject("accept" :> <<"text/html">>),
     HeadersInstance("X-Trace" :> <<"1">>)}

HeaderOptionsSet == [method : MethodOptions, headers : HeaderOptions, signal : {"none"}]

HeadersInit ==
    \E key \in ApiKeyEnvValues, retries \in {Str(<<"0">>), Str(<<"1">>)} :
      Started([BackoffEnv(retries, DEFAULT_API_RETRY_BASE_DELAY_MS)
                 EXCEPT !.API_KEY = key], {"c1"})

HeadersNext ==
    \/ LoadModule
    \/ \E c \in Calls :
         \/ \E options \in HeaderOptionsSet : ApiRequest(c, options)
         \/ FetchResponds(c)
         \/ TextRead(c)
         \/ JsonRead(c)
         \/ SleepDone(c)

HeadersSpec == HeadersInit /\ [][HeadersNext]_vars

(***************************************************************************)
(* Two calls at once: both calls of the tool layer are made, in any order  *)
(* and at any moment of each other's progress, each a GET or a POST, with  *)
(* or without a signal of its own.                                         *)
(***************************************************************************)
ConcOptionsSet ==
    [method : {UnsetS, S("POST")}, headers : {NoHeaders}, signal : {"none", "live"}]

ConcInit == Started(BackoffEnv(Str(<<"1">>), DEFAULT_API_RETRY_BASE_DELAY_MS), Calls)

ConcNext ==
    \/ LoadModule
    \/ \E c \in Calls :
         \/ \E options \in ConcOptionsSet : ApiRequest(c, options)
         \/ Respond(c, 503, TEXT_EMPTY)
         \/ Respond(c, 200, TEXT_JSON)
         \/ TextRead(c)
         \/ JsonRead(c)
         \/ NetworkFailure(c)
         \/ TimeoutFires(c)
         \/ ExternalAbort(c)
         \/ SleepDone(c)

ConcSpec == ConcInit /\ [][ConcNext]_vars

(***************************************************************************)
(* The filters on their own.  A filter is built from one choice per key    *)
(* (the key left out, or one of the values its type admits), the keys in   *)
(* one order or the other.                                                 *)
(***************************************************************************)
Absent == JsValue("absent")

OptionalProperty(key, value) == IF value = Absent THEN <<>> ELSE <<Property(key, value)>>

StatusValues ==
    {Absent, JsUndefined, JsArray(<<>>), JsArray(<<JsString("live")>>),
     JsArray(<<JsString("live"), JsString("future")>>), JsString("live")}

ParentIdValues == {Absent, JsNull, JsString("null"), JsString("parent-1")}

LabelsValues ==
    {Absent, JsObject(<<>>),
     JsObject(<<Property("team", JsString("core"))>>),
     JsObject(<<Property("team", JsString("core")), Property("env", JsString("prod"))>>)}

ExternalValues == {Absent, JsBoolean(TRUE), JsBoolean(FALSE)}

FilterSamples ==
    {OptionalProperty("status", s) \o OptionalProperty("parentId", p)
       \o OptionalProperty("labels", l) \o OptionalProperty("external", e) :
         s \in StatusValues, p \in ParentIdValues, l \in LabelsValues,
         e \in ExternalValues}
    \cup
    {OptionalProperty("external", e) \o OptionalProperty("labels", l)
       \o OptionalProperty("parentId", p) \o OptionalProperty("status", s) :
         s \in StatusValues, p \in ParentIdValues, l \in LabelsValues,
         e \in ExternalValues}

ToolInit == Started(BackoffEnv(Str(<<"0">>), DEFAULT_API_RETRY_BASE_DELAY_MS), {"c1"})

FilterNext ==
    \/ LoadModule
    \/ \E c \in Calls :
         \/ \E filter \in FilterSamples : GetModelObjectsDirect(c, filter)
         \/ Respond(c, 200, TEXT_JSON)
         \/ JsonRead(c)

FilterSpec == ToolInit /\ [][FilterNext]_vars

(***************************************************************************)
(* The icepanel_list_model_objects tool on its own: the arguments a client *)
(* may send, with and without `external`.                                  *)
(***************************************************************************)
ListInputs ==
    {<<Property("landscapeId", JsString(LANDSCAPE_ID))>>
       \o OptionalProperty("external", e) \o OptionalProperty("status", s)
       \o OptionalProperty("parentId", p) \o OptionalProperty("search", q)
       \o OptionalProperty("limit", n) \o OptionalProperty("response_format", f) :
         e \in ExternalValues,
         s \in StatusValues \ {JsUndefined},
         p \in ParentIdValues,
         q \in {Absent, JsString("gateway")},
         n \in {Absent, JsNumber(10)},
         f \in {Absent, JsString("json")}}
    \cup {<<Property("landscapeId", JsString(LANDSCAPE_ID)),
            Property("labels", JsObject(<<>>))>>}

ToolNext ==
    \/ LoadModule
    \/ \E input \in ListInputs : ParseToolInput(input)
    \/ \E c \in Calls :
         \/ ListModelObjectsHandler(c)
         \/ Respond(c, 200, TEXT_JSON)
         \/ JsonRead(c)

ToolSpec == ToolInit /\ [][ToolNext]_vars

(***************************************************************************)
(* Progress.  The timers of setTimeout fire unless they are cleared: the   *)
(* timeout timer of an attempt aborts whatever the attempt is waiting for, *)
(* and the timer of sleep() ends the backoff.  Nothing else is assumed     *)
(* about the network.                                                      *)
(***************************************************************************)
LiveInit ==
    \E retries \in {Str(<<"0">>), Str(<<"1">>), Str(<<"3">>)} :
      Started(BackoffEnv(retries, DEFAULT_API_RETRY_BASE_DELAY_MS), {"c1"})

LiveSpec ==
    /\ LiveInit
    /\ [][Next]_vars
    /\ \A c \in Calls : WF_vars(TimeoutFires(c)) /\ WF_vars(SleepDone(c))

(***************************************************************************)
(* The start-up: parseCliConfig over command lines and environments.  A    *)
(* command line is made of the KEY=value arguments and the flags for the   *)
(* transport and the port, in either order, and an end that may be a flag  *)
(* without a value.                                                        *)
(***************************************************************************)
KeyValue(key, value) == key \o <<"=">> \o value

Quoted(value) == <<"\"">> \o value \o <<"\"">>

KvTransportArgs ==
    {<<>>,
     <<KeyValue(MCP_TRANSPORT, HTTP)>>,
     <<KeyValue(MCP_TRANSPORT, SSE)>>,
     <<KeyValue(MCP_TRANSPORT, <<>>)>>,
     <<KeyValue(MCP_TRANSPORT, Quoted(SSE))>>,
     <<KeyValue(MCP_TRANSPORT, STDIO), KeyValue(MCP_TRANSPORT, HTTP)>>}

FlagTransportArgs ==
    {<<>>,
     <<FLAG_TRANSPORT, HTTP>>,
     <<FLAG_TRANSPORT, SSE>>,
     <<FLAG_TRANSPORT, STDIO>>,
     <<FLAG_TRANSPORT, <<>>>>,
     <<FLAG_TRANSPORT, STDIO, FLAG_TRANSPORT, SSE>>}

KvPortArgs ==
    {<<>>,
     <<KeyValue(MCP_PORT, <<"9", "1", "2", "3">>)>>,
     <<KeyValue(MCP_PORT, <<>>)>>}

FlagPortArgs ==
    {<<>>,
     <<FLAG_PORT, <<"4", "0", "0", "0">>>>,
     <<FLAG_PORT, <<"a", "b", "c">>>>}

LastArgs ==
    {<<>>, <<FLAG_TRANSPORT>>, <<FLAG_PORT>>, <<KeyValue(<<"O">>, <<"1">>)>>}

CliArgs ==
    UNION {{kt \o ft \o kp \o fp \o last, fp \o ft \o kp \o kt \o last} :
             <<kt, ft, kp, fp, last>> \in
               KvTransportArgs \X FlagTransportArgs \X KvPortArgs
                 \X FlagPortArgs \X LastArgs}

CliEnvs ==
    UNION {{NoEnv, [k \in {MCP_TRANSPORT} |-> t], [k \in {MCP_PORT} |-> p],
            [k \in {MCP_TRANSPORT, MCP_PORT} |->
               IF k = MCP_TRANSPORT THEN t ELSE p]} :
             <<t, p>> \in {<<>>, HTTP, SSE} \X {<<>>, <<"8", "1", "2", "3">>}}

\* const config = parseCliConfig(process.argv.slice(2), process.env)
ParseCliConfig ==
    /\ cli.pc = "idle"
    /\ \E args \in CliArgs, e \in CliEnvs :
         cli' = [pc |-> "parsed", args |-> args, env |-> e,
                 result |-> parseCliConfig(args, e)]
    /\ UNCHANGED <<settings, call, tool, listing, deleteTool>>

CliNext == ParseCliConfig

CliSpec == ToolInit /\ [][CliNext]_vars

(***************************************************************************)
(* List tools (e.g. part_012 137-168): the handler paginates what the API  *)
(* returned and limits the size of the page; the client asks for the next  *)
(* page at next_offset with the same limit.  The API returns the same list *)
(* for every page.                                                         *)
(***************************************************************************)
MaxItems == 4

MaxLimit == 4

ItemSizes == {2, 9}

RECURSIVE SizesOfLength(_)
SizesOfLength(n) ==
    IF n = 0 THEN {<<>>}
    ELSE {Append(sizes, size) : sizes \in SizesOfLength(n - 1), size \in ItemSizes}

ItemLists ==
    UNION {{[i \in 1..n |-> Item(i, sizes[i])] : sizes \in SizesOfLength(n)} :
             n \in 0..MaxItems}

\* The client calls the tool for the first time.
StartListing(offsets) ==
    /\ listing.pc = "idle"
    /\ \E items \in ItemLists, limit \in 1..MaxLimit, offset \in offsets,
          format \in {"markdown", "json"} :
         listing' = [listing EXCEPT !.pc = "request", !.all = items,
                                    !.limit = limit, !.offset = offset,
                                    !.response_format = format]
    /\ UNCHANGED <<settings, call, tool, cli, deleteTool>>

\* The handler up to the head of the loop of applyCharacterLimit.
Paginate ==
    /\ listing.pc = "request"
    /\ LET paged == paginateArray(listing.all, listing.offset, listing.limit)
           output == SpreadPaged(paged)
       IN  listing' = [listing EXCEPT
                         !.pc = "limiting", !.paged = paged, !.output = output,
                         !.rendered = Render(listing.response_format, output)]
    /\ UNCHANGED <<settings, call, tool, cli, deleteTool>>

\* One pass of the loop.
Truncate ==
    /\ listing.pc = "limiting"
    /\ OverLimit(listing.output, listing.rendered)
    /\ LET output == TruncateOutput(listing.output)
       IN  listing' = [listing EXCEPT
                         !.output = output,
                         !.rendered = Render(listing.response_format, output)]
    /\ UNCHANGED <<settings, call, tool, cli, deleteTool>>

\* The loop ends and the handler returns the page.
ReturnPage ==
    /\ listing.pc = "limiting"
    /\ ~OverLimit(listing.output, listing.rendered)
    /\ listing' = [listing EXCEPT
                     !.pc = "returned",
                     !.received = @ \o [i \in 1..Len(listing.output.items) |->
                                          listing.output.items[i].id]]
    /\ UNCHANGED <<settings, call, tool, cli, deleteTool>>

\* The client asks for the page at next_offset.
RequestNext ==
    /\ listing.pc = "returned"
    /\ listing.output.has_more
    /\ listing' = [listing EXCEPT !.pc = "request",
                                  !.offset = listing.output.next_offset.value]
    /\ UNCHANGED <<settings, call, tool, cli, deleteTool>>

\* One call of a list tool, at any offset the schema admits.
PageNext ==
    \/ StartListing(0..(MaxItems + 1))
    \/ Paginate
    \/ Truncate
    \/ ReturnPage

PageSpec == ToolInit /\ [][PageNext]_vars

\* The handler is synchronous code: once called it runs to its return.
PageLiveSpec ==
    PageSpec /\ WF_vars(Paginate) /\ WF_vars(Truncate) /\ WF_vars(ReturnPage)

\* Paging from offset 0.
PagingNext ==
    \/ StartListing({0})
    \/ Paginate
    \/ Truncate
    \/ ReturnPage
    \/ RequestNext

PagingSpec == ToolInit /\ [][PagingNext]_vars

\* The client goes on asking while there is more.
PagingLiveSpec ==
    /\ PagingSpec
    /\ WF_vars(Paginate) /\ WF_vars(Truncate) /\ WF_vars(ReturnPage)
    /\ WF_vars(RequestNext)

(***************************************************************************)
(* The delete tools over the client: the API key may be missing, and the   *)
(* API may answer the GET and the DELETE with the entity, with another     *)
(* body, with no content or with an error, or not at all.                  *)
(***************************************************************************)
EntityIds == {"object00000000000001", "object00000000000002"}

\* The handler up to `await getModelObject(...)` / `await getConnection(...)`.
DeleteToolCalled(name, id) ==
    /\ moduleState = "loaded"
    /\ deleteTool.pc = "idle"
    /\ call["c1"].pc = "idle"
    /\ deleteTool' = [deleteTool EXCEPT !.pc = "getting", !.name = name, !.id = id]
    /\ call' = [call EXCEPT !["c1"] =
                  StartCall(call["c1"], GetPath(name, LANDSCAPE_ID, id), <<>>,
                            GetOptions)]
    /\ UNCHANGED <<settings, tool, cli, listing>>

\* The GET has settled: the handler goes on to the DELETE, or to its catch
\* block.  The model-object tool reads the name before it deletes.
AfterGet ==
    /\ deleteTool.pc = "getting"
    /\ call["c1"].pc = "settled"
    /\ LET get == call["c1"]
           name == deleteTool.name
       IN  IF ~AwaitSucceeded(get)
           THEN /\ deleteTool' = [deleteTool EXCEPT !.pc = "done",
                                                    !.result = ToolCatch(get.error)]
                /\ UNCHANGED call
           ELSE IF name = DELETE_MODEL_OBJECT /\ ~HasName(get.value, name)
           THEN /\ deleteTool' = [deleteTool EXCEPT
                                    !.pc = "done", !.existing = get.value,
                                    !.result = ToolCatch(ReadNameTypeError)]
                /\ UNCHANGED call
           ELSE /\ deleteTool' = [deleteTool EXCEPT !.pc = "deleting",
                                                    !.existing = get.value]
                /\ call' = [call EXCEPT !["c2"] =
                              StartCall(call["c2"],
                                        DeletePath(name, LANDSCAPE_ID, deleteTool.id),
                                        <<>>, DeleteOptions)]
    /\ UNCHANGED <<settings, tool, cli, listing>>

\* The DELETE has settled: the handler returns.  The connection tool reads
\* the name only now.
AfterDelete ==
    /\ deleteTool.pc = "deleting"
    /\ call["c2"].pc = "settled"
    /\ deleteTool' =
         [deleteTool EXCEPT
            !.pc = "done",
            !.result =
               IF ~AwaitSucceeded(call["c2"]) THEN ToolCatch(call["c2"].error)
               ELSE IF ~HasName(deleteTool.existing, deleteTool.name)
               THEN ToolCatch(ReadNameTypeError)
               ELSE Deleted]
    /\ UNCHANGED <<settings, call, tool, cli, listing>>

DeleteInit ==
    \E key \in ApiKeyEnvValues, retries \in {Str(<<"0">>), Str(<<"1">>)} :
      Started([BackoffEnv(retries, DEFAULT_API_RETRY_BASE_DELAY_MS)
                 EXCEPT !.API_KEY = key], {})

DeleteNext ==
    \/ LoadModule
    \/ \E name \in {DELETE_MODEL_OBJECT, DELETE_CONNECTION}, id \in EntityIds :
         DeleteToolCalled(name, id)
    \/ AfterGet
    \/ AfterDelete
    \/ \E c \in Calls :
         \/ Respond(c, 200, TEXT_MODEL_OBJECT)
         \/ Respond(c, 200, TEXT_CONNECTION)
         \/ Respond(c, 200, TEXT_HTML)
         \/ Respond(c, 204, TEXT_EMPTY)
         \/ Respond(c, 404, TEXT_JSON)
         \/ Respond(c, 503, TEXT_HTML)
         \/ TextRead(c)
         \/ JsonRead(c)
         \/ NetworkFailure(c)
         \/ TimeoutFires(c)
         \/ SleepDone(c)

DeleteSpec == DeleteInit /\ [][DeleteNext]_vars

(***************************************************************************)
(* Properties.                                                             *)
(***************************************************************************)
Settled(r) == r.pc = "settled"
Mutating(r) == r.method \in {"POST", "PATCH", "DELETE"}

\* The call got past getApiKey and entered the retry loop.
EnteredLoop(r) == r.fetchCalls >= 1

\* The body an IcePanelApiError is expected to carry for a response text.
ExpectedBody(text) ==
    CASE text = TEXT_JSON -> ObjectValue("Landscape not found")
      [] text = TEXT_EMPTY -> Undefined
      [] OTHER -> StringValue(text)

\* C1: a call with a mutating method (POST, PATCH, DELETE) calls fetch at
\* most once and never sleeps for a retry; if its attempt received a 503 the
\* call is rejected (with the 503 IcePanelApiError of that attempt unless
\* the body read itself failed), whatever the retry budget is.
C1_MutatingNeverRetried ==
    \A c \in Calls :
      LET r == call[c]
      IN  Mutating(r) =>
            /\ r.fetchCalls <= 1
            /\ r.netRequests <= 1
            /\ r.attempt = 0
            /\ r.delays = <<>>
            /\ r.pc # "sleeping"
            /\ (Settled(r) /\ r.response.status = 503) =>
                 /\ r.outcome = "rejected"
                 /\ r.error.attempt = 0
                 /\ r.error.class = "IcePanelApiError" => r.error.status = 503

C1_Witness ==
    \E c \in Calls :
      /\ Settled(call[c])
      /\ call[c].method = "POST"
      /\ API_MAX_RETRIES = MAX_API_RETRIES
      /\ call[c].outcome = "rejected"
      /\ call[c].error.class = "IcePanelApiError"
      /\ call[c].error.status = 503
      /\ call[c].fetchCalls = 1

\* C2: when options.signal is aborted while a request (or its body read) is
\* in flight, the call is rejected in that very step with the AbortError
\* and fetch is not called again, even for GET/HEAD with retries left; a
\* settled call never calls fetch again.
C2_ExternalAbortWins ==
    [][\A c \in Calls :
         /\ (InFlight(call[c]) /\ call[c].signal = "live"
               /\ call'[c].signal = "aborted") =>
              /\ call'[c].pc = "settled"
              /\ call'[c].outcome = "rejected"
              /\ call'[c].error.name = "AbortError"
              /\ call'[c].fetchCalls = call[c].fetchCalls
              /\ call'[c].delays = call[c].delays
         /\ Settled(call[c]) =>
              /\ Settled(call'[c])
              /\ call'[c].fetchCalls = call[c].fetchCalls
              /\ call'[c].outcome = call[c].outcome]_vars

C2_Witness ==
    \E c \in Calls :
      /\ Settled(call[c])
      /\ call[c].canRetry
      /\ call[c].attempt < API_MAX_RETRIES
      /\ call[c].outcome = "rejected"
      /\ call[c].error.cause = "external"
      /\ call[c].netRequests = call[c].fetchCalls
      /\ call[c].fetchCalls >= 2

\* C3: for a GET/HEAD call whose attempts before the last one each received
\* a 503 (N - 1 of them, N = attempt + 1) and whose N-th attempt received a
\* 2xx response that was read without failure, the call resolves with the
\* parsed body (an empty object for 204) after exactly N fetch calls and N
\* requests; and a call is never rejected with a 503 while retries remain,
\* so the N-th attempt is reached for every N up to the retry budget.
C3_RetryUntilSuccess ==
    \A c \in Calls :
      LET r == call[c]
      IN  (Settled(r) /\ r.canRetry /\ EnteredLoop(r)) =>
            /\ (/\ r.n503 = r.attempt
                /\ ResponseOk(r.response)
                /\ r.response.status = 204 \/ r.response.text = TEXT_JSON
                /\ r.error = NoError) =>
                 /\ r.outcome = "resolved"
                 /\ r.value = IF r.response.status = 204 THEN EmptyObject
                              ELSE ObjectValue("Landscape not found")
                 /\ r.fetchCalls = r.n503 + 1
                 /\ r.netRequests = r.n503 + 1
                 /\ Len(r.delays) = r.n503
            /\ (/\ r.outcome = "rejected"
                /\ r.error.class = "IcePanelApiError"
                /\ r.error.status = 503) =>
                 r.error.attempt = API_MAX_RETRIES

C3_Witness ==
    \E c \in Calls :
      /\ Settled(call[c])
      /\ call[c].canRetry
      /\ call[c].n503 = 2
      /\ call[c].fetchCalls = 3
      /\ API_MAX_RETRIES >= 3
      /\ call[c].outcome = "resolved"
      /\ call[c].value = ObjectValue("Landscape not found")

\* A failure the client retries: a 429 or 5xx response, a network failure,
\* or an abort by the attempt's own timeout.
RetryableFailure(error) ==
    \/ error.class = "IcePanelApiError" /\ error.status \in {429} \cup (500..599)
    \/ error.class = "TypeError"
    \/ error.name = "AbortError" /\ error.cause = "timeout"

\* C4: a GET/HEAD call that is rejected with a retryable failure has made
\* exactly API_MAX_RETRIES + 1 attempts (one request each, a backoff sleep
\* between them) and the error it rejects with is the one of the last
\* attempt; a call whose attempts all failed is never resolved.
C4_ExhaustedRetries ==
    \A c \in Calls :
      LET r == call[c]
      IN  (Settled(r) /\ r.canRetry /\ EnteredLoop(r)) =>
            /\ (r.outcome = "rejected" /\ RetryableFailure(r.error)) =>
                 /\ r.fetchCalls = API_MAX_RETRIES + 1
                 /\ r.netRequests = API_MAX_RETRIES + 1
                 /\ Len(r.delays) = API_MAX_RETRIES
                 /\ r.error.attempt = API_MAX_RETRIES
                 /\ r.error.class = "IcePanelApiError" =>
                      /\ r.error.status = r.response.status
                      /\ r.error.body = ExpectedBody(r.response.text)
            /\ r.outcome = "resolved" => r.error = NoError
            /\ r.outcome = "rejected" => r.error # NoError

C4_Witness ==
    \E c \in Calls :
      /\ Settled(call[c])
      /\ call[c].canRetry
      /\ API_MAX_RETRIES = 3
      /\ call[c].fetchCalls = 4
      /\ call[c].outcome = "rejected"
      /\ call[c].error.class = "TypeError"
      /\ call[c].error.attempt = 3

\* C5: when a GET/HEAD call with retries remaining has read the body of a
\* non-2xx response, a 429 or 5xx status puts the call into the backoff
\* sleep, which ends in one more fetch call; any other status rejects the
\* call in that step, without another fetch call, with an IcePanelApiError
\* that carries the response's status, statusText and body.
C5_StatusClassification ==
    [][\A c \in Calls :
         LET r == call[c]
             n == call'[c]
             status == r.response.status
         IN  /\ (TextRead(c) /\ r.canRetry /\ r.attempt < API_MAX_RETRIES) =>
                  IF status = 429 \/ status \in 500..599
                  THEN /\ n.pc = "sleeping"
                       /\ n.outcome = "pending"
                       /\ n.fetchCalls = r.fetchCalls
                  ELSE /\ n.pc = "settled"
                       /\ n.outcome = "rejected"
                       /\ n.fetchCalls = r.fetchCalls
                       /\ n.error.class = "IcePanelApiError"
                       /\ n.error.status = status
                       /\ n.error.statusText = r.response.statusText
                       /\ n.error.body = ExpectedBody(r.response.text)
             /\ SleepDone(c) =>
                  /\ n.fetchCalls = r.fetchCalls + 1
                  /\ n.attempt = r.attempt + 1]_vars

C5_Witness ==
    \E c \in Calls :
      /\ Settled(call[c])
      /\ call[c].canRetry
      /\ call[c].attempt < API_MAX_RETRIES
      /\ call[c].fetchCalls = 3
      /\ call[c].n503 = 1
      /\ call[c].outcome = "rejected"
      /\ call[c].error.class = "IcePanelApiError"
      /\ call[c].error.status = 404
      /\ call[c].error.body = ObjectValue("Landscape not found")

\* C6: when the timeout timer of the current attempt fires while its
\* request is in flight and options.signal is not aborted, the attempt's
\* controller is aborted; a GET/HEAD call with retries remaining goes to the
\* backoff sleep, and the attempt after the sleep runs under exactly one
\* new timer of API_TIMEOUT_MS; any other call is rejected with the
\* AbortError, a call with another method after its single fetch call.
C6_TimeoutAbortRetried ==
    [][\A c \in Calls :
         LET r == call[c]
             n == call'[c]
         IN  /\ (TimeoutFires(c) /\ InFlight(r) /\ r.signal # "aborted") =>
                  /\ r.attempt \in n.aborted
                  /\ n.error = AbortError(r.attempt, "timeout")
                  /\ IF r.canRetry /\ r.attempt < API_MAX_RETRIES
                     THEN n.pc = "sleeping" /\ n.outcome = "pending"
                     ELSE /\ n.pc = "settled"
                          /\ n.outcome = "rejected"
                          /\ n.fetchCalls = r.fetchCalls
                          /\ ~r.canRetry => n.fetchCalls = 1
             /\ (SleepDone(c) /\ r.signal # "aborted") =>
                  /\ n.pc = "fetching"
                  /\ n.attempt = r.attempt + 1
                  /\ n.timers = {[attempt |-> n.attempt, ms |-> API_TIMEOUT_MS]}
                  /\ n.attempt \notin n.aborted
                  /\ API_TIMEOUT_MS \in MIN_API_TIMEOUT_MS..MAX_API_TIMEOUT_MS]_vars

C6_Witness ==
    \E c \in Calls :
      /\ call[c].pc = "sleeping"
      /\ call[c].attempt = 1
      /\ call[c].signal = "live"
      /\ call[c].error = AbortError(1, "timeout")
      /\ call[c].timers = {}

\* C7: with ICEPANEL_API_MAX_RETRIES=0 the effective retry count is 0, and
\* then every call that reaches the retry loop has called fetch exactly
\* once when it settles, never sleeps, and puts at most one request on the
\* network, whatever the method and however the attempt ended.
C7_ZeroRetriesOneAttempt ==
    /\ (moduleState = "loaded" /\ env.ICEPANEL_API_MAX_RETRIES = Str(<<"0">>)) =>
         API_MAX_RETRIES = 0
    /\ (moduleState = "loaded" /\ API_MAX_RETRIES = 0) =>
         \A c \in Calls :
           LET r == call[c]
           IN  /\ r.fetchCalls <= 1
               /\ r.netRequests <= 1
               /\ r.pc # "sleeping"
               /\ r.delays = <<>>
               /\ (Settled(r) /\ r.error.message # ERR_NO_API_KEY) => r.fetchCalls = 1
               /\ (Settled(r) /\ r.response # NoResponse) => r.netRequests = 1

C7_Witness ==
    \E c \in Calls :
      /\ env.ICEPANEL_API_MAX_RETRIES = Str(<<"0">>)
      /\ Settled(call[c])
      /\ call[c].canRetry
      /\ call[c].fetchCalls = 1
      /\ call[c].outcome = "rejected"
      /\ call[c].error.class = "IcePanelApiError"
      /\ call[c].error.status = 503

\* The wait min(base * 2^k, cap) written out.
ExpectedDelay(base, k) ==
    IF base * (2 ^ k) <= 5000 THEN base * (2 ^ k) ELSE 5000

\* C8: for every configured base delay in 50..5000 the wait after the failed
\* attempt with index k (k in 0..4) is exactly min(base * 2^k, 5000) ms: the
\* i-th sleep of a call is the one after attempt i - 1, and the sleep in
\* progress is the one computed for the current attempt.
C8_BackoffDelay ==
    moduleState = "loaded" =>
      /\ API_RETRY_BASE_DELAY_MS \in 50..5000
      /\ Str(ToChars(API_RETRY_BASE_DELAY_MS)) = env.ICEPANEL_API_RETRY_BASE_DELAY_MS
      /\ \A c \in Calls :
           LET r == call[c]
           IN  /\ Len(r.delays) <= 5
               /\ \A i \in 1..Len(r.delays) :
                    r.delays[i] = ExpectedDelay(API_RETRY_BASE_DELAY_MS, i - 1)
               /\ r.pc = "sleeping" =>
                    /\ r.attempt \in 0..4
                    /\ Len(r.delays) = r.attempt + 1
                    /\ r.sleepMs = ExpectedDelay(API_RETRY_BASE_DELAY_MS, r.attempt)

C8_Witness ==
    \E c \in Calls :
      /\ API_RETRY_BASE_DELAY_MS = 313
      /\ call[c].pc = "sleeping"
      /\ call[c].attempt = 4
      /\ call[c].delays = <<313, 626, 1252, 2504, 5000>>

\* C9 as stated: the delays of successive retries of a call are strictly
\* increasing, for every base delay and retry count.
C9_StrictlyIncreasing ==
    \A c \in Calls :
      \A i \in 1..(Len(call[c].delays) - 1) :
        call[c].delays[i] < call[c].delays[i + 1]

\* C9 as amended: the delays of successive retries of a call never decrease
\* and never exceed the 5000 ms cap; a delay is strictly larger than the one
\* before it whenever that one is below the cap, and two successive delays
\* are equal only when both are the cap.
C9_IncreasingUpToCap ==
    \A c \in Calls :
      \A i \in 1..(Len(call[c].delays) - 1) :
        LET d == call[c].delays[i]
            e == call[c].delays[i + 1]
        IN  /\ d <= e
            /\ e <= 5000
            /\ d < 5000 => d < e
            /\ d = e => d = 5000

C9_Witness ==
    \E c \in Calls :
      /\ Len(call[c].delays) = 4
      /\ call[c].delays[1] < call[c].delays[2]
      /\ call[c].delays[2] < call[c].delays[3]
      /\ call[c].delays[3] = call[c].delays[4]

\* C10: the module loads only with an https base URL, or an http one when
\* ICEPANEL_API_ALLOW_INSECURE is truthy; with http and no override it
\* fails with the "must use https" error, with another scheme or an
\* unparsable URL with its own error, and then no call is ever started.
\* Every fetch call goes to the validated base URL.
C10_BaseUrlValidated ==
    LET given == env.ICEPANEL_API_BASE_URL
        raw == IF given.set /\ given.str # "" THEN given.str ELSE DEFAULT_API_BASE_URL
        parsed == ParseURL(raw)
        allowed == isTruthyEnv(env.ICEPANEL_API_ALLOW_INSECURE)
        secure == parsed.valid /\ parsed.protocol = "https:"
        overridden == parsed.valid /\ parsed.protocol = "http:" /\ allowed
    IN  /\ moduleState # "unloaded" =>
             (moduleState = "loaded" <=> (secure \/ overridden))
        /\ moduleState = "failed" =>
             /\ \A c \in Calls : call[c] = IdleCall
             /\ loadError =
                  IF ~parsed.valid THEN ERR_INVALID_URL
                  ELSE IF parsed.protocol = "http:" THEN ERR_INSECURE_URL
                  ELSE ERR_SCHEME_URL
        /\ \A c \in Calls :
             call[c].fetchCalls > 0 =>
               /\ moduleState = "loaded"
               /\ secure \/ overridden
               /\ call[c].url = <<StripTrailingSlash(parsed.href), API_PATH>>

C10_Witness ==
    /\ moduleState = "failed"
    /\ env.ICEPANEL_API_BASE_URL = S(URL_HTTP)
    /\ env.ICEPANEL_API_ALLOW_INSECURE = S("false")
    /\ loadError = ERR_INSECURE_URL
    /\ \A c \in Calls : call[c].netRequests = 0

\* process.env.API_KEY is undefined or empty.
ApiKeyMissing == ~env.API_KEY.set \/ env.API_KEY.str = ""

\* C11: when API_KEY is missing, a call never calls fetch, never puts a
\* request on the network, never starts a timer and never sleeps for a
\* retry; it is rejected in the step it is made, with the Error "API_KEY
\* environment variable is not set", for every method, signal and retry
\* budget.
C11_MissingApiKeyFailsFast ==
    ApiKeyMissing =>
      \A c \in Calls :
        LET r == call[c]
        IN  /\ r.pc \in {"idle", "settled"}
            /\ r.fetchCalls = 0
            /\ r.netRequests = 0
            /\ r.timers = {}
            /\ r.listeners = {}
            /\ r.delays = <<>>
            /\ r.attempt = 0
            /\ Settled(r) =>
                 /\ r.outcome = "rejected"
                 /\ r.error = PlainError(ERR_NO_API_KEY, 0)

C11_Witness ==
    \E c \in Calls :
      /\ ~env.API_KEY.set
      /\ Settled(call[c])
      /\ call[c].canRetry
      /\ API_MAX_RETRIES = MAX_API_RETRIES
      /\ call[c].outcome = "rejected"
      /\ call[c].error.message = ERR_NO_API_KEY
      /\ call[c].fetchCalls = 0

\* The three numeric settings: the environment value, the effective value,
\* and the default and range the program reads it with.
Settings ==
    {[raw |-> env.ICEPANEL_API_TIMEOUT_MS, effective |-> API_TIMEOUT_MS,
      default |-> 30000, min |-> 1000, max |-> 120000],
     [raw |-> env.ICEPANEL_API_MAX_RETRIES, effective |-> API_MAX_RETRIES,
      default |-> 2, min |-> 0, max |-> 5],
     [raw |-> env.ICEPANEL_API_RETRY_BASE_DELAY_MS, effective |-> API_RETRY_BASE_DELAY_MS,
      default |-> 300, min |-> 50, max |-> 5000]}

Clamp(n, min, max) == IF n < min THEN min ELSE IF n > max THEN max ELSE n

\* The environment value holds no finite integer.
NoNumber(raw) ==
    raw \in {Unset, Str(<<>>)} \cup NonNumericSamples \cup BeyondDoubleSamples

\* The integer the environment value is read as, for a value that holds
\* one of ordinary size.
ReadAs(raw) ==
    IF \E n \in IntSamples : raw = Str(ToChars(n))
    THEN CHOOSE n \in IntSamples : raw = Str(ToChars(n))
    ELSE (CHOOSE p \in PrefixSamples : p.raw = raw).value

\* C12 as stated: startup never fails, and a non-numeric or out-of-range
\* value of a setting makes the client use the setting's default.
C12_OutOfRangeUsesDefault ==
    /\ moduleState # "failed"
    /\ moduleState = "loaded" =>
         \A s \in Settings :
           (\/ s.raw \in NonNumericSamples \cup BeyondDoubleSamples \cup LargeFiniteSamples
            \/ s.raw = Str(<<"-", "5">>)
            \/ \E n \in IntSamples :
                 s.raw = Str(ToChars(n)) /\ (n < s.min \/ n > s.max))
             => s.effective = s.default

\* C12 as amended: startup never fails on account of a setting; an unset,
\* empty or non-numeric value, or an integer too large for a double, gives
\* the default (30000 ms, 2 retries, 300 ms); a value that starts with an
\* integer is read as that integer, and an integer below the setting's
\* range gives the minimum of the range, one above it the maximum, one
\* inside it the integer itself.
C12_DefaultOrClamped ==
    /\ moduleState # "failed"
    /\ moduleState = "loaded" =>
         \A s \in Settings :
           s.effective =
             IF NoNumber(s.raw) THEN s.default
             ELSE IF s.raw \in LargeFiniteSamples THEN s.max
             ELSE Clamp(ReadAs(s.raw), s.min, s.max)

C12_Witness ==
    /\ moduleState = "loaded"
    /\ env.ICEPANEL_API_TIMEOUT_MS = Str(<<"9", "9", "9">>)
    /\ API_TIMEOUT_MS = 1000
    /\ env.ICEPANEL_API_MAX_RETRIES = Str(<<"a", "b", "c">>)
    /\ API_MAX_RETRIES = 2
    /\ env.ICEPANEL_API_RETRY_BASE_DELAY_MS = Str(<<"5", "0", "0", "1">>)
    /\ API_RETRY_BASE_DELAY_MS = 5000

\* C13: once the module is loaded, whatever the three environment
\* variables hold (unset, empty, non-numeric, negative, huge), the request
\* timeout is in 1000..120000 ms, the retry count in 0..5 and the retry
\* base delay in 50..5000 ms.
C13_SettingsInRange ==
    moduleState = "loaded" =>
      /\ API_TIMEOUT_MS \in 1000..120000
      /\ API_MAX_RETRIES \in 0..5
      /\ API_RETRY_BASE_DELAY_MS \in 50..5000

C13_Witness ==
    /\ moduleState = "loaded"
    /\ env.ICEPANEL_API_TIMEOUT_MS = Str(Repeat("9", 310))
    /\ API_TIMEOUT_MS = 30000
    /\ env.ICEPANEL_API_MAX_RETRIES = Str(<<"-", "5">>)
    /\ API_MAX_RETRIES = 0
    /\ env.ICEPANEL_API_RETRY_BASE_DELAY_MS = Str(<<"1">> \o Repeat("0", 308))
    /\ API_RETRY_BASE_DELAY_MS = 5000

\* C14: the headers object of a call that has called fetch has the
\* properties Accept, Content-Type and Authorization, whatever
\* options.headers was: each of the three holds the caller's value when the
\* caller's plain object has a property of exactly that name, and otherwise
\* application/json, application/json and "ApiKey <API_KEY>"; every other
\* property of the caller's plain object is there as well, and nothing else.
C14_DefaultHeadersKept ==
    \A c \in Calls :
      LET r == call[c]
      IN  r.fetchCalls > 0 =>
            /\ {"Accept", "Content-Type", "Authorization"} \subseteq DOMAIN r.headers
            /\ LET h == r.optionsHeaders
                    given == IF h.kind = "object" THEN h.entries ELSE NoProperties
                 IN  /\ DOMAIN r.headers =
                          {"Accept", "Content-Type", "Authorization"} \cup DOMAIN given
                     /\ \A n \in DOMAIN given : r.headers[n] = given[n]
                     /\ "Accept" \notin DOMAIN given =>
                          r.headers["Accept"] = <<"application/json">>
                     /\ "Content-Type" \notin DOMAIN given =>
                          r.headers["Content-Type"] = <<"application/json">>
                     /\ "Authorization" \notin DOMAIN given =>
                          r.headers["Authorization"] = <<"ApiKey ", env.API_KEY.str>>

C14_Witness ==
    \E c \in Calls :
      /\ call[c].fetchCalls = 2
      /\ call[c].method = "GET"
      /\ call[c].optionsHeaders.kind = "object"
      /\ DOMAIN call[c].headers = {"Accept", "Content-Type", "Authorization", "X-Trace"}
      /\ call[c].headers["X-Trace"] = <<"1">>
      /\ call[c].headers["Content-Type"] = <<"text/plain">>
      /\ call[c].headers["Authorization"] = <<"ApiKey ", "key-1">>

\* The call is in its final attempt: no retry is allowed after it.
FinalAttempt(r) == ~(r.canRetry /\ r.attempt < API_MAX_RETRIES)

\* C15 as stated: when the text of a 500 response that is not JSON has been
\* read in the final attempt, the call is rejected in that step with an
\* IcePanelApiError of status 500 whose body is the response text.
C15_BodyIsRawText ==
    [][\A c \in Calls :
         LET r == call[c]
             n == call'[c]
         IN  (/\ TextRead(c)
              /\ r.response.status = 500
              /\ r.response.text # TEXT_JSON
              /\ FinalAttempt(r)) =>
               /\ n.pc = "settled"
               /\ n.outcome = "rejected"
               /\ n.error.class = "IcePanelApiError"
               /\ n.error.status = 500
               /\ n.error.body = StringValue(r.response.text)]_vars

\* C15 as amended: when the text of a 500 response that is not JSON has
\* been read in the final attempt, the call is rejected in that step with
\* an IcePanelApiError of status 500 and the response's statusText, whose
\* body is the response text when the text is not empty and undefined when
\* it is empty; no other error comes out of reading the text.
C15_BodyIsRawTextOrUndefined ==
    [][\A c \in Calls :
         LET r == call[c]
             n == call'[c]
         IN  (/\ TextRead(c)
              /\ r.response.status = 500
              /\ r.response.text # TEXT_JSON
              /\ FinalAttempt(r)) =>
               /\ n.pc = "settled"
               /\ n.outcome = "rejected"
               /\ n.fetchCalls = r.fetchCalls
               /\ n.error.class = "IcePanelApiError"
               /\ n.error.status = 500
               /\ n.error.statusText = "Internal Server Error"
               /\ n.error.attempt = r.attempt
               /\ n.error.body = IF r.response.text = "" THEN Undefined
                                 ELSE StringValue(r.response.text)]_vars

C15_Witness ==
    \E c \in Calls :
      /\ Settled(call[c])
      /\ call[c].canRetry
      /\ call[c].attempt = 3
      /\ API_MAX_RETRIES = 3
      /\ call[c].outcome = "rejected"
      /\ call[c].error.class = "IcePanelApiError"
      /\ call[c].error.status = 500
      /\ call[c].response.text = TEXT_HTML
      /\ call[c].error.body = StringValue(TEXT_HTML)

\* C16: when fetch resolves with a 204 response, the call resolves in that
\* very step with an empty object, whatever the body holds; a 204 response
\* is never handed to response.text() or response.json(), and a call whose
\* last response was a 204 is never rejected.
C16_NoContentReturnsEmptyObject ==
    [][\A c \in Calls :
         LET r == call[c]
             n == call'[c]
         IN  /\ (r.pc = "fetching" /\ n.response.status = 204) =>
                  /\ n.pc = "settled"
                  /\ n.outcome = "resolved"
                  /\ n.value = EmptyObject
                  /\ n.error = NoError
                  /\ n.timers = {}
             /\ n.pc \in {"reading_text", "reading_json"} => n.response.status # 204
             /\ (Settled(n) /\ n.response.status = 204) => n.outcome = "resolved"]_vars

C16_Witness ==
    \E c \in Calls :
      /\ Settled(call[c])
      /\ call[c].method = "DELETE"
      /\ call[c].response.status = 204
      /\ call[c].response.text = TEXT_EMPTY
      /\ call[c].outcome = "resolved"
      /\ call[c].value = EmptyObject

\* What a caller can read from the error a call is rejected with.
VisibleError(error) ==
    [class |-> error.class, name |-> error.name, message |-> error.message,
     status |-> error.status, statusText |-> error.statusText, body |-> error.body]

\* C17: the error of a call rejected because its options.signal was aborted
\* differs, in what a caller can read from it, from the error of a call
\* rejected because the timeout of its attempt fired.
C17_AbortsDistinguishable ==
    \A c, d \in Calls :
      (/\ Settled(call[c]) /\ call[c].outcome = "rejected"
       /\ call[c].error.name = "AbortError" /\ call[c].error.cause = "external"
       /\ Settled(call[d]) /\ call[d].outcome = "rejected"
       /\ call[d].error.name = "AbortError" /\ call[d].error.cause = "timeout") =>
        VisibleError(call[c].error) # VisibleError(call[d].error)

\* C18: a step changes the local state of at most one call (its attempt
\* counter, timers, controllers, response, outcome and error), and once
\* the module is loaded no step changes the module-level settings: what one
\* call goes through leaves every other call exactly where it was.
C18_CallsIndependent ==
    [][/\ \A c, d \in Calls :
            (c # d /\ call'[c] # call[c]) => call'[d] = call[d]
       /\ moduleState = "loaded" => UNCHANGED config
       /\ \A c \in Calls :
            /\ \A t \in call'[c].timers : t.attempt <= call'[c].attempt
            /\ call'[c].aborted \subseteq 0..call'[c].attempt]_vars

C18_Witness ==
    /\ Settled(call["c1"])
    /\ call["c1"].outcome = "rejected"
    /\ call["c1"].error = AbortError(0, "timeout")
    /\ call["c1"].method = "POST"
    /\ call["c2"].pc = "fetching"
    /\ call["c2"].attempt = 1
    /\ call["c2"].aborted = {}
    /\ call["c2"].error = NoError
    /\ call["c2"].timers = {[attempt |-> 1, ms |-> API_TIMEOUT_MS]}

\* The parameters of one filter key, in the order they were appended.
ParamsOfKey(params, key) == SelectSeq(params, LAMBDA q : q.name.key = key)

\* The position of a key in a filter (0 when the filter has no such key).
KeyIndex(filter, key) ==
    IF HasKey(filter, key)
    THEN CHOOSE i \in 1..Len(filter) : filter[i].key = key
    ELSE 0

\* The string a filter value is written as.
Written(value) ==
    CASE value = JsBoolean(TRUE) -> "true"
      [] value = JsBoolean(FALSE) -> "false"
      [] value = JsNull -> "null"
      [] OTHER -> value.str

\* The serialization rules of C19: what the parameters of each key are, and
\* that the keys come in the filter's order.
SerializedByRules(filter, params) ==
    /\ \A q \in {params[i] : i \in 1..Len(params)} : HasKey(filter, q.name.key)
    /\ \A i, j \in 1..Len(params) :
         i < j => KeyIndex(filter, params[i].name.key) <= KeyIndex(filter, params[j].name.key)
    /\ \A e \in {filter[i] : i \in 1..Len(filter)} :
         LET got == ParamsOfKey(params, e.key)
             v == e.value
         IN  CASE v.type = "undefined" -> got = <<>>
               [] v.type = "array" ->
                    /\ Len(got) = Len(v.items)
                    /\ \A i \in 1..Len(got) :
                         got[i] = [name |-> [key |-> e.key, kind |-> "array", sub |-> ""],
                                   value |-> Written(v.items[i])]
               [] v.type = "null" ->
                    got = <<[name |-> [key |-> e.key, kind |-> "value", sub |-> ""],
                             value |-> "null"]>>
               [] v.type = "object" ->
                    /\ e.key = "labels"
                    /\ Len(got) = Len(v.entries)
                    /\ \A i \in 1..Len(got) :
                         got[i] = [name |-> [key |-> "labels", kind |-> "label",
                                             sub |-> v.entries[i].key],
                                   value |-> Written(v.entries[i].value)]
               [] OTHER ->
                    got = <<[name |-> [key |-> e.key, kind |-> "value", sub |-> ""],
                             value |-> Written(v)]>>

\* A filter without its undefined entries.
DropUndefined(filter) == SelectSeq(filter, LAMBDA e : e.value.type # "undefined")

\* A filter as far as its parameters tell: without the entries that leave
\* no parameter (undefined, an empty array, an empty labels map), and with
\* the string "null" taken for null.
ToldByParams(filter) ==
    LET kept == SelectSeq(filter, LAMBDA e :
                  /\ e.value.type # "undefined"
                  /\ ~(e.value.type = "array" /\ e.value.items = <<>>)
                  /\ ~(e.value.type = "object" /\ e.value.entries = <<>>))
    IN  [i \in 1..Len(kept) |->
           IF kept[i].value = JsString("null") THEN Property(kept[i].key, JsNull)
           ELSE kept[i]]

\* C19 as stated: the parameters getModelObjects sends are the ones the
\* rules give, and the filter can be reconstructed from them: no other
\* filter, undefined entries aside, has the same parameters.
C19_Reconstructible ==
    tool.pc = "called" =>
      /\ SerializedByRules(tool.filter, tool.params)
      /\ \A g \in FilterSamples :
           buildFilterParams(g) = tool.params =>
             DropUndefined(g) = DropUndefined(tool.filter)

\* C19 as amended: the parameters getModelObjects sends are the ones the
\* rules give, key by key in the filter's order, and they are the query of
\* the request; two filters with the same parameters differ at most in
\* entries that leave no parameter (undefined, an empty array, an empty
\* labels map) and in null against the string "null".
C19_SerializedByRules ==
    tool.pc = "called" =>
      /\ SerializedByRules(tool.filter, tool.params)
      /\ \A c \in Calls : call[c].pc # "idle" => call[c].query = tool.params
      /\ \A g \in FilterSamples :
           buildFilterParams(g) = tool.params =>
             ToldByParams(g) = ToldByParams(tool.filter)

C19_Witness ==
    /\ tool.pc = "called"
    /\ Get(tool.filter, "status") = JsArray(<<JsString("live"), JsString("future")>>)
    /\ Get(tool.filter, "parentId") = JsNull
    /\ Len(Get(tool.filter, "labels").entries) = 2
    /\ Get(tool.filter, "external") = JsBoolean(TRUE)
    /\ Len(tool.params) = 6
    /\ tool.params[1].name.key = "external"
    /\ call["c1"].query = tool.params
    /\ call["c1"].fetchCalls = 1

\* C20: the object ListModelObjectsSchema.parse returns has an `external`
\* key exactly when the tool's arguments have one, with the same value, and
\* when they have none the request getModelObjects makes has no
\* filter[external] parameter.
C20_ExternalNotDefaulted ==
    /\ tool.pc \in {"parsed", "called"} =>
         /\ HasKey(tool.parsed, "external") <=> HasKey(tool.input, "external")
         /\ HasKey(tool.input, "external") =>
              Get(tool.parsed, "external") = Get(tool.input, "external")
    /\ (tool.pc = "called" /\ ~HasKey(tool.input, "external")) =>
         \A c \in Calls :
           \A i \in 1..Len(call[c].query) : call[c].query[i].name.key # "external"

\* C24: every call that was made eventually settles; a settled call keeps
\* its outcome, value and error for good; and a call resolves only with
\* what it read from a 2xx response, never after a failure of its last
\* attempt: every call that does not resolve rejects with the error.
C24_SettlesExactlyOnce ==
    /\ \A c \in Calls : (call[c].pc # "idle") ~> Settled(call[c])
    /\ [][\A c \in Calls :
            Settled(call[c]) =>
              /\ Settled(call'[c])
              /\ call'[c].outcome = call[c].outcome
              /\ call'[c].value = call[c].value
              /\ call'[c].error = call[c].error]_vars
    /\ [](\A c \in Calls :
            Settled(call[c]) =>
              \/ /\ call[c].outcome = "resolved"
                 /\ call[c].error = NoError
                 /\ ResponseOk(call[c].response)
                 /\ call[c].value = IF call[c].response.status = 204 THEN EmptyObject
                                    ELSE ObjectValue("Landscape not found")
              \/ /\ call[c].outcome = "rejected"
                 /\ call[c].error # NoError
                 /\ call[c].value = Undefined)

C24_Witness ==
    \E c \in Calls :
      /\ Settled(call[c])
      /\ call[c].outcome = "rejected"
      /\ call[c].error = AbortError(3, "timeout")
      /\ call[c].fetchCalls = 4
      /\ call[c].response.status = 200

\* C25: a call holds at most one pending timeout timer and at most one
\* listener on options.signal, both of its current attempt (they stay
\* through the backoff sleep and are released when the sleep ends, before
\* the next attempt creates its own); an idle or settled call holds none.
C25_TimerAndListenerReleased ==
    \A c \in Calls :
      LET r == call[c]
      IN  /\ Cardinality(r.timers) <= 1
          /\ Cardinality(r.listeners) <= 1
          /\ \A t \in r.timers : t.attempt = r.attempt
          /\ r.listeners \subseteq {r.attempt}
          /\ r.pc \in {"idle", "settled"} => r.timers = {} /\ r.listeners = {}
          /\ InFlight(r) => Cardinality(r.timers) + Cardinality(r.aborted) >= 1

C25_Witness ==
    \E c \in Calls :
      /\ Settled(call[c])
      /\ call[c].signal = "live"
      /\ call[c].attempt = 2
      /\ call[c].fetchCalls = 3
      /\ call[c].outcome = "resolved"
      /\ call[c].timers = {}
      /\ call[c].listeners = {}

\* C26: when options.signal is already aborted as an attempt starts (at the
\* call, or after a backoff sleep during which it was aborted), the
\* attempt's controller is aborted before fetch is called, fetch puts no
\* request on the network, and the call is rejected in that step with the
\* AbortError, without a sleep; and a call that is not yet settled while
\* its signal is aborted never resolves.
C26_AbortedSignalRejects ==
    [][\A c \in Calls :
         LET r == call[c]
             n == call'[c]
         IN  /\ (r.pc \in {"idle", "sleeping"} /\ n.signal = "aborted"
                   /\ n.fetchCalls = r.fetchCalls + 1) =>
                  /\ n.attempt \in n.aborted
                  /\ n.netRequests = r.netRequests
                  /\ n.pc = "settled"
                  /\ n.outcome = "rejected"
                  /\ n.error.name = "AbortError"
                  /\ n.delays = r.delays
             /\ (SleepDone(c) /\ r.signal = "aborted") =>
                  n.fetchCalls = r.fetchCalls + 1 /\ n.pc = "settled"
             /\ (~Settled(r) /\ n.signal = "aborted") => n.outcome # "resolved"]_vars

C26_Witness ==
    \E c \in Calls :
      /\ Settled(call[c])
      /\ call[c].canRetry
      /\ call[c].attempt = 1
      /\ call[c].attempt < API_MAX_RETRIES
      /\ call[c].outcome = "rejected"
      /\ call[c].error = AbortError(1, "external")
      /\ call[c].fetchCalls = 2
      /\ call[c].netRequests = 1

\* C27: no call is ever rejected with "Unexpected error in apiRequest":
\* the loop variable never passes API_MAX_RETRIES, and a call that settles
\* after entering the loop does so from inside an iteration.
C27_UnexpectedErrorUnreachable ==
    \A c \in Calls :
      LET r == call[c]
      IN  /\ r.error.message # ERR_UNEXPECTED
          /\ moduleState = "loaded" => r.attempt <= API_MAX_RETRIES
          /\ (Settled(r) /\ r.error.message # ERR_NO_API_KEY) =>
               r.fetchCalls = r.attempt + 1

C27_Witness ==
    \E c \in Calls :
      /\ Settled(call[c])
      /\ call[c].canRetry
      /\ API_MAX_RETRIES = MAX_API_RETRIES
      /\ call[c].attempt = MAX_API_RETRIES
      /\ call[c].fetchCalls = MAX_API_RETRIES + 1
      /\ call[c].outcome = "rejected"
      /\ call[c].error.class = "TypeError"

\* What the command line and the environment say, told without the loops of
\* the code.  In the command lines above no flag and no KEY=value argument is
\* the value of a flag.
FlagPositions(args, flag) ==
    {i \in 1..(Len(args) - 1) : args[i] = flag /\ args[i + 1] # <<>>}

KvPositions(args, key) ==
    {i \in 1..Len(args) :
       /\ Len(args[i]) > Len(key)
       /\ SubSeq(args[i], 1, Len(key) + 1) = key \o <<"=">>}

Last(positions) == CHOOSE i \in positions : \A j \in positions : j <= i

FlagValue(args, flag) == args[Last(FlagPositions(args, flag)) + 1]

Unquoted(value) ==
    IF Len(value) >= 2 /\ value[1] \in Quotes /\ value[Len(value)] \in Quotes
    THEN SubSeq(value, 2, Len(value) - 1)
    ELSE value

KvValue(args, key) ==
    LET arg == args[Last(KvPositions(args, key))]
    IN  Unquoted(SubSeq(arg, Len(key) + 2, Len(arg)))

EnvGiven(e, key) == key \in DOMAIN e /\ e[key] # <<>>

\* The first source that gives a value: flag, KEY=value argument,
\* environment, default.
ByPrecedence(args, e, flag, key, default) ==
    IF FlagPositions(args, flag) # {} THEN FlagValue(args, flag)
    ELSE IF KvPositions(args, key) # {} /\ KvValue(args, key) # <<>>
    THEN KvValue(args, key)
    ELSE IF EnvGiven(e, key) THEN e[key]
    ELSE default

\* The same, but a KEY=value argument with an empty value hides the
\* environment.
ByPrecedenceOfCode(args, e, flag, key, default) ==
    IF FlagPositions(args, flag) # {} THEN FlagValue(args, flag)
    ELSE IF KvPositions(args, key) # {}
    THEN IF KvValue(args, key) # <<>> THEN KvValue(args, key) ELSE default
    ELSE IF EnvGiven(e, key) THEN e[key]
    ELSE default

NewName(transport) == IF transport = SSE THEN HTTP ELSE transport

C22_SseMappedToHttp ==
    cli.pc = "parsed" =>
      LET resolved == ByPrecedenceOfCode(cli.args, cli.env, FLAG_TRANSPORT,
                                         MCP_TRANSPORT, STDIO)
      IN  IF resolved = SSE
          THEN cli.result.transport = HTTP /\ cli.result.usedDeprecatedSse
          ELSE cli.result.transport = resolved /\ ~cli.result.usedDeprecatedSse

\* "sse" came from the environment alone, and was mapped.
C22_Witness ==
    /\ cli.pc = "parsed"
    /\ FlagPositions(cli.args, FLAG_TRANSPORT) = {}
    /\ KvPositions(cli.args, MCP_TRANSPORT) = {}
    /\ EnvGiven(cli.env, MCP_TRANSPORT) /\ cli.env[MCP_TRANSPORT] = SSE
    /\ cli.result.transport = HTTP
    /\ cli.result.usedDeprecatedSse

\* The ids of the items of a page.
Ids(items) == [i \in 1..Len(items) |-> items[i].id]

\* The first n natural numbers, in order.
FirstIds(n) == [i \in 1..n |-> i]

IsPrefix(a, b) == Len(a) <= Len(b) /\ a = SubSeq(b, 1, Len(a))

\* C23: paginateArray(items, offset, limit) returns total = the number of
\* items; items = the elements offset+1 .. offset+limit of the list, as far
\* as they exist; count = their number; has_more exactly when
\* offset + count < total; next_offset = offset + count when has_more, and
\* no next_offset otherwise.
C23_PageOfTheList ==
    listing.pc \in {"limiting", "returned"} =>
      LET total == Len(listing.all)
          count == Max(0, Min(listing.limit, total - listing.offset))
          paged == listing.paged
      IN  /\ paged.total = total
          /\ paged.items = [i \in 1..count |-> listing.all[listing.offset + i]]
          /\ paged.count = count
          /\ paged.offset = listing.offset
          /\ paged.has_more <=> (listing.offset + count < total)
          /\ paged.next_offset =
               IF paged.has_more THEN Offset(listing.offset + count) ELSE NoOffset

\* A full page from the middle of the list that ends exactly at its end.
C23_Witness ==
    /\ listing.pc = "returned"
    /\ listing.offset = 2
    /\ listing.limit = 2
    /\ listing.paged.total = 4
    /\ listing.paged.count = 2
    /\ ~listing.paged.has_more

\* C28: applyCharacterLimit terminates (a call of the tool returns, and
\* every pass of the loop leaves fewer items, but at least one); when it
\* returns, the rendered text is that of the output and is no longer than
\* CHARACTER_LIMIT or the output holds at most one item; a page that had an
\* item still has one; and an output whose text fitted is returned as given.
C28_LimitTerminatesAndKeepsOne ==
    /\ (listing.pc = "request") ~> (listing.pc = "returned")
    /\ [][(listing.pc = "limiting" /\ listing'.pc = "limiting") =>
            /\ Len(listing'.output.items) < Len(listing.output.items)
            /\ Len(listing'.output.items) >= 1]_vars
    /\ [](listing.pc = "returned" =>
            LET given == SpreadPaged(listing.paged)
            IN  /\ listing.rendered = Render(listing.response_format, listing.output)
                /\ \/ listing.rendered <= CHARACTER_LIMIT
                   \/ Len(listing.output.items) <= 1
                /\ listing.paged.count >= 1 => Len(listing.output.items) >= 1
                /\ Render(listing.response_format, given) <= CHARACTER_LIMIT =>
                     listing.output = given)

\* A page of four items was cut twice, down to one item whose text is still
\* longer than the limit.
C28_Witness ==
    /\ listing.pc = "returned"
    /\ listing.paged.count = 4
    /\ Len(listing.output.items) = 1
    /\ listing.output.truncated
    /\ listing.rendered > CHARACTER_LIMIT

\* C29: a client that starts at offset 0 and asks for next_offset with the
\* same limit has, after every page, received the items before
\* offset + count, once each and in the order of the list; when a page says
\* has_more false it has received the whole list, and that page comes.  A
\* page applyCharacterLimit truncated holds a prefix of the page, its count
\* is their number, has_more is true and next_offset = offset + count.
C29_PagingReturnsEveryItemOnce ==
    /\ (listing.pc = "request") ~>
         (listing.pc = "returned" /\ ~listing.output.has_more)
    /\ [](listing.pc = "returned" =>
            LET output == listing.output
            IN  /\ listing.received = FirstIds(output.offset + output.count)
                /\ Ids(output.items) =
                     [i \in 1..output.count |-> output.offset + i]
                /\ ~output.has_more => listing.received = Ids(listing.all)
                /\ output.has_more =>
                     /\ output.count >= 1
                     /\ output.next_offset = Offset(output.offset + output.count)
                /\ output.truncated =>
                     /\ IsPrefix(output.items, listing.paged.items)
                     /\ output.count = Len(output.items)
                     /\ output.has_more
                     /\ output.next_offset = Offset(output.offset + output.count))

\* The last page of a list of four items asked for with limit 4: the pages
\* before it were truncated, or one page would have held the list.
C29_Witness ==
    /\ listing.pc = "returned"
    /\ Len(listing.all) = 4
    /\ listing.limit = 4
    /\ listing.output.offset = 3
    /\ ~listing.output.has_more
    /\ listing.received = <<1, 2, 3, 4>>

\* C30: the DELETE call of a delete tool exists only when the tool's GET
\* call has resolved, and it is a DELETE of the path the GET read; when the
\* GET was rejected no DELETE call is ever made and nothing is sent for it,
\* the next step of the handler returns a result with isError, and the
\* handler never throws.
C30_DeleteOnlyAfterGetSucceeded ==
    /\ [](call["c2"].pc # "idle" =>
            /\ call["c1"].pc = "settled" /\ call["c1"].outcome = "resolved"
            /\ call["c1"].method = "GET" /\ call["c2"].method = "DELETE"
            /\ call["c2"].url = call["c1"].url)
    /\ []((call["c1"].pc = "settled" /\ call["c1"].outcome = "rejected") =>
            /\ call["c2"].pc = "idle"
            /\ call["c2"].fetchCalls = 0 /\ call["c2"].netRequests = 0
            /\ deleteTool.pc = "done" =>
                 deleteTool.result.returned /\ deleteTool.result.isError)
    /\ [][(/\ deleteTool.pc = "getting"
           /\ call["c1"].pc = "settled" /\ call["c1"].outcome = "rejected"
           /\ deleteTool' # deleteTool) =>
            /\ deleteTool'.pc = "done"
            /\ deleteTool'.result.returned /\ deleteTool'.result.isError
            /\ call' = call]_vars
    /\ [](~deleteTool.result.threw)

\* The GET of the connection tool was answered 404: the tool has returned
\* the "not found" error and there is no DELETE call.
C30_Witness ==
    /\ deleteTool.pc = "done"
    /\ deleteTool.name = DELETE_CONNECTION
    /\ call["c1"].outcome = "rejected"
    /\ call["c1"].error.status = 404
    /\ deleteTool.result.isError
    /\ deleteTool.result.text = <<"Error: Resource not found.">>
    /\ call["c2"].pc = "idle"

=============================================================================
